---- MODULE Spec2Model ----
(***************************************************************************)
(* Model of the file-history engine of FFSVersionManager:                  *)
(*   - load_file_history / clear_file_history_cache and the module-level   *)
(*     FILE_HISTORY_CACHE (src/src/core/file_history_model.py),             *)
(*   - FileHistoryModel with its FileHistoryWorker thread and the queued    *)
(*     delivery of the worker's finished signal,                            *)
(*   - the part of FileHistoryView and SyncConfigModel that drives them.    *)
(***************************************************************************)
EXTENDS Integers, Sequences, FiniteSets, TLC

(***************************************************************************)
(* Bounds of the model.                                                    *)
(***************************************************************************)
\* modification times are drawn from 1..MaxTime
MaxTime == 2
\* number of FileHistoryModel.refresh calls in one behaviour
MaxRequests == 3

(***************************************************************************)
(* File names.  A name is kept with the decomposition the code computes    *)
(* from it: stem + ext is the plain name, and every element of stamps      *)
(* stands for one appended " <stamp><ext>" (the form an external sync tool *)
(* gives to a copy in the versioning folder).  A stamp is the sequence of  *)
(* its characters.                                                         *)
(***************************************************************************)
Nm(stem, ext, stamps) == [stem |-> stem, ext |-> ext, stamps |-> stamps]
Dir(n) == Nm(n, "", <<>>)
\* the "." component of a path string
Dot == Dir(".")

Digits == {"0", "1", "2", "3", "4", "5", "6", "7", "8", "9"}

\* "2024-01-01 120000"
Stamp1 == <<"2","0","2","4","-","0","1","-","0","1"," ","1","2","0","0","0","0">>
\* "2024-02-01 093000"
Stamp2 == <<"2","0","2","4","-","0","2","-","0","1"," ","0","9","3","0","0","0">>
\* "2024-1-1 120000": components not zero-padded
StampBad == <<"2","0","2","4","-","1","-","1"," ","1","2","0","0","0","0">>

\* os.path.splitext(base_name)[1]
SplitExt(name) == name.ext

(***************************************************************************)
(* The glob pattern of line 109,                                           *)
(*   f'{base_name} [0-9][0-9][0-9][0-9]-[0-9][0-9]-[0-9][0-9] [0-9]x6{ext}' *)
(* "D" stands for the class [0-9]; any other element is a literal.         *)
(***************************************************************************)
StampPattern ==
  <<"D","D","D","D","-","D","D","-","D","D"," ","D","D","D","D","D","D">>

MatchesStampPattern(s) ==
  /\ Len(s) = Len(StampPattern)
  /\ \A i \in 1..Len(StampPattern) :
       IF StampPattern[i] = "D" THEN s[i] \in Digits ELSE s[i] = StampPattern[i]

\* the characters of a stem; a stem without pattern characters is one literal
Chars(stem) ==
  IF stem = "d[o]c" THEN <<"d", "[", "o", "]", "c">>
  ELSE IF stem = "doc" THEN <<"d", "o", "c">>
  ELSE IF stem = "AB" THEN <<"A", "B">>
  ELSE IF stem = "VX" THEN <<"V", "X">>
  ELSE <<stem>>

\* fnmatch of the characters of a name against those of a pattern, as glob
\* applies it to the interpolated base_name: "*" is any run, "?" any
\* character, "[...]" one character of the class ("[!...]" one not in it)
RECURSIVE FnMatch(_, _)
FnMatch(pat, name) ==
  IF Len(pat) = 0 THEN Len(name) = 0
  ELSE IF pat[1] = "*"
  THEN \E k \in 0..Len(name) : FnMatch(Tail(pat), SubSeq(name, k + 1, Len(name)))
  ELSE IF pat[1] = "?"
  THEN Len(name) > 0 /\ FnMatch(Tail(pat), Tail(name))
  ELSE LET closing == {j \in 3..Len(pat) : pat[j] = "]"}
       IN  IF pat[1] = "[" /\ closing # {}
           THEN LET j == CHOOSE c \in closing : \A d \in closing : c <= d
                    negated == pat[2] = "!"
                    class == {pat[i] : i \in (IF negated THEN 3 ELSE 2)..(j - 1)}
                IN  /\ Len(name) > 0
                    /\ (name[1] \in class) # negated
                    /\ FnMatch(SubSeq(pat, j + 1, Len(pat)), Tail(name))
           ELSE /\ Len(name) > 0
                /\ name[1] = pat[1]
                /\ FnMatch(Tail(pat), Tail(name))

\* entry matches the pattern  base_name + " " + <stamp pattern> + ext
GlobMatch(entry, base_name, ext) ==
  /\ FnMatch(Chars(base_name.stem), Chars(entry.stem))
  /\ entry.ext = base_name.ext
  /\ entry.ext = ext
  /\ Len(entry.stamps) = Len(base_name.stamps) + 1
  /\ SubSeq(entry.stamps, 1, Len(base_name.stamps)) = base_name.stamps
  /\ MatchesStampPattern(entry.stamps[Len(entry.stamps)])

(***************************************************************************)
(* Path strings and pathlib.  A path string is its sequence of components  *)
(* as written (a "." component included) and the separator it is written   *)
(* with.  The program runs on Windows (main_window.py imports windll), so   *)
(* str(Path) writes backslashes.                                           *)
(***************************************************************************)
NativeSep == "\\"
PosixSep == "/"

PathStr(sep, parts) == [sep |-> sep, parts |-> parts]
\* the empty string ""
NoFile == PathStr(NativeSep, <<>>)

\* Path(s): single dots are collapsed, the separator is forgotten
PathOf(s) == SelectSeq(s.parts, LAMBDA c : c # Dot)
\* str(p)
StrOf(p) == PathStr(NativeSep, p)
\* Path(s).resolve().as_posix()
AsPosix(s) == PathStr(PosixSep, PathOf(s))

IsPrefix(b, p) == Len(b) <= Len(p) /\ SubSeq(p, 1, Len(b)) = b
\* p.relative_to(base) raises ValueError unless base is an ancestor of p (or p)
RelativeToRaises(p, base) == ~IsPrefix(base, p)
RelativeTo(p, base) == SubSeq(p, Len(base) + 1, Len(p))
Parent(p) == IF Len(p) = 0 THEN p ELSE SubSeq(p, 1, Len(p) - 1)
\* os.path.basename of a path given by its components
BaseName(p) == IF Len(p) = 0 THEN Dir("") ELSE p[Len(p)]


(***************************************************************************)
(* The universe of folders and files.  Folders always exist; a file exists *)
(* when the filesystem gives it a modification time above 0.               *)
(***************************************************************************)
DocTxt == Nm("doc", ".txt", <<>>)
DocV1 == Nm("doc", ".txt", <<Stamp1>>)
DocV2 == Nm("doc", ".txt", <<Stamp2>>)
DocVBad == Nm("doc", ".txt", <<StampBad>>)
\* a name with pattern characters in it, and its copy in the versioning folder
DocBr == Nm("d[o]c", ".txt", <<>>)
DocBrV1 == Nm("d[o]c", ".txt", <<Stamp1>>)

FolderA == <<Dir("A")>>
FolderB == <<Dir("B")>>
FolderC == <<Dir("C")>>
FolderV == <<Dir("V")>>
FolderZ == <<Dir("Z")>>
Folders == {<<>>, FolderA, FolderB, FolderC, FolderV, FolderZ}

FileA == FolderA \o <<DocTxt>>
FileB == FolderB \o <<DocTxt>>
FileC == FolderC \o <<DocTxt>>
FileZ == FolderZ \o <<DocTxt>>
FileV1 == FolderV \o <<DocV1>>
FileV2 == FolderV \o <<DocV2>>
FileVBad == FolderV \o <<DocVBad>>
FileABr == FolderA \o <<DocBr>>
FileVBr == FolderV \o <<DocBrV1>>

\* the files in the order in which a directory listing yields them
FileOrder == <<FileA, FileABr, FileB, FileC, FileV1, FileV2, FileVBad, FileVBr, FileZ>>
Files == {FileOrder[i] : i \in 1..Len(FileOrder)}

\* os.path.exists
Exists(f, s) ==
  LET p == PathOf(s) IN p \in Folders \/ (p \in Files /\ f[p] > 0)
\* os.path.isfile
IsFile(f, s) ==
  LET p == PathOf(s) IN p \in Files /\ f[p] > 0
\* os.path.getmtime, os.path.getsize
GetMTime(f, s) == LET p == PathOf(s) IN IF p \in Files THEN f[p] ELSE 0
GetSize(f, s) == LET p == PathOf(s) IN IF p \in Files THEN Len(p) + Len(BaseName(p).stamps) ELSE 0
\* os.path.basename, os.path.dirname of a path string
BaseNameStr(s) == BaseName(s.parts)
DirNameStr(s) == PathStr(s.sep, Parent(s.parts))

\* Path.glob(pattern) in a folder: the existing entries of the folder that
\* match, in listing order
Glob(f, folder, base_name, ext) ==
  SelectSeq(FileOrder, LAMBDA p : /\ f[p] > 0
                                  /\ Parent(p) = folder
                                  /\ GlobMatch(BaseName(p), base_name, ext))

(***************************************************************************)
(* SyncPair (config_parser.py) and FileHistoryItem.                        *)
(***************************************************************************)
SyncPair(name, left, right, versioning, config) ==
  [name |-> name, left_path |-> left, right_path |-> right,
   versioning_folder |-> versioning, include_patterns |-> <<>>,
   exclude_patterns |-> <<>>, sync_config_path |-> config]

\* the equality a dataclass generates: by every field
SyncPairEqByFields(a, b) == a = b

\* SyncPair.__eq__: by sync_config_path alone
SyncPairEq(a, b) == a.sync_config_path = b.sync_config_path

(***************************************************************************)
(* Configuration files (ffs_config_parser.py, config_parser.py).  A config *)
(* path is a string of which the code uses Path(config_path).suffix and    *)
(* Path(config_path).stem; the file behind it is unreadable (missing, or   *)
(* not well-formed XML) or a document with an optional VersioningFolder    *)
(* element and the Pair elements of FolderPairs.  An element is absent or  *)
(* present with a text; the text "" stands for an element without text.    *)
(***************************************************************************)
\* Path(config_path).suffix
PathSuffix(config_path) ==
  IF config_path = "notes.txt" THEN ".txt"
  ELSE IF config_path = "c3.FFS_BATCH" THEN ".FFS_BATCH"
  ELSE ".ffs_batch"
\* Path(config_path).stem
PathStem(config_path) ==
  IF config_path = "c1" THEN "job1"
  ELSE IF config_path = "c2" THEN "job2"
  ELSE IF config_path = "c3.FFS_BATCH" THEN "c3"
  ELSE IF config_path = "notes.txt" THEN "notes"
  ELSE config_path
\* str.lower() on a suffix
Lower(suffix) == IF suffix = ".FFS_BATCH" THEN ".ffs_batch" ELSE suffix

Absent == [present |-> FALSE, text |-> NoFile]
El(text) == [present |-> TRUE, text |-> text]
\* a Filter element with the texts of the Item elements of its Include and
\* Exclude ("" for an Item without text), or no Filter element
XmlFilter(include, exclude) ==
  [present |-> TRUE, Include |-> include, Exclude |-> exclude]
NoFilter == [present |-> FALSE, Include |-> <<>>, Exclude |-> <<>>]
XmlPair(left, right) == [Left |-> left, Right |-> right, Filter |-> NoFilter]
\* the document: Filter is the Filter child of MainConfig, which precedes
\* FolderPairs in the file
XmlDoc(versioning, pairs) ==
  [readable |-> TRUE, VersioningFolder |-> versioning, Filter |-> NoFilter,
   Pairs |-> pairs]
\* a file that is missing or is not well-formed XML
Unreadable ==
  [readable |-> FALSE, VersioningFolder |-> Absent, Filter |-> NoFilter,
   Pairs |-> <<>>]
\* [item.text for item in ....findall("Item") if item.text]
ItemTexts(items) == SelectSeq(items, LAMBDA t : t # "")
\* root.find(".//Filter"): the first Filter element of the document, at any depth
FirstFilter(doc) ==
  IF doc.Filter.present THEN doc.Filter
  ELSE IF \E k \in 1..Len(doc.Pairs) : doc.Pairs[k].Filter.present
  THEN doc.Pairs[CHOOSE k \in 1..Len(doc.Pairs) :
                   /\ doc.Pairs[k].Filter.present
                   /\ \A j \in 1..(k - 1) : ~doc.Pairs[j].Filter.present].Filter
  ELSE NoFilter

\* a factory that hands out the parser whatever the suffix is
CreateParserAlways(config_path) == TRUE

\* ConfigParserFactory.create_parser(config_path) returns a parser
CreateParser(config_path) == Lower(PathSuffix(config_path)) = ".ffs_batch"

\* the loop of lines 60-89: one SyncPair for every Pair element that has a
\* Left and a Right element
PairsOfElements(config_path, doc) ==
  LET kept == SelectSeq(doc.Pairs, LAMBDA e : e.Left.present /\ e.Right.present)
  IN  [i \in 1..Len(kept) |->
         [SyncPair(PathStem(config_path), kept[i].Left.text, kept[i].Right.text,
                   doc.VersioningFolder.text, config_path)
            EXCEPT !.include_patterns = ItemTexts(FirstFilter(doc).Include)
                                          \o ItemTexts(kept[i].Filter.Include),
                   !.exclude_patterns = ItemTexts(FirstFilter(doc).Exclude)
                                          \o ItemTexts(kept[i].Filter.Exclude)]]

\* a parser that lets the exception of ET.parse leave add_configs
Raised == [none |-> FALSE, raised |-> TRUE, sync_pairs |-> <<>>]
ParseRaises(config_path, doc) ==
  IF doc.readable
  THEN [none |-> FALSE, raised |-> FALSE,
        sync_pairs |-> PairsOfElements(config_path, doc)]
  ELSE Raised

\* FFSConfigParser.parse_config: None (none) when anything raises
ParseConfig(config_path, doc) ==
  IF doc.readable
  THEN [none |-> FALSE, raised |-> FALSE,
        sync_pairs |-> PairsOfElements(config_path, doc)]
  ELSE [none |-> TRUE, raised |-> FALSE, sync_pairs |-> <<>>]

\* a registry that takes the parsed pair in place of the registered one
RECURSIVE AppendOrReplace(_, _)
AppendOrReplace(list, parsed) ==
  IF Len(parsed) = 0 THEN list
  ELSE LET sp == Head(parsed)
           known == {i \in 1..Len(list) : SyncPairEq(list[i], sp)}
       IN  AppendOrReplace(
             IF known = {} THEN Append(list, sp)
             ELSE [i \in 1..Len(list) |-> IF i \in known THEN sp ELSE list[i]],
             Tail(parsed))

\* "if sync_pair not in self.sync_pairs: self.sync_pairs.append(sync_pair)"
\* for the pairs of one parser, on the list as it grows
RECURSIVE AppendNew(_, _)
AppendNew(list, parsed) ==
  IF Len(parsed) = 0 THEN list
  ELSE LET sp == Head(parsed)
           known == \E i \in 1..Len(list) : SyncPairEq(list[i], sp)
       IN  AppendNew(IF known THEN list ELSE Append(list, sp), Tail(parsed))

\* self.sync_config_paths.update(config_paths), with every path of the call
UpdatedPaths(known, config_paths) ==
  known \cup {config_paths[i] : i \in 1..Len(config_paths)}

\* SyncConfigModel.add_configs(config_paths) on the files as they are: the
\* pair list afterwards, the success list, and whether an exception left it
RECURSIVE AddConfigsLoop(_, _, _)
AddConfigsLoop(list, config_paths, files) ==
  IF Len(config_paths) = 0
  THEN [sync_pairs |-> list, success |-> <<>>, raised |-> FALSE]
  ELSE LET config_path == Head(config_paths)
           parsed == ParseConfig(config_path, files[config_path])
           ok == CreateParser(config_path) /\ ~parsed.none /\ ~parsed.raised
           raised == CreateParser(config_path) /\ parsed.raised
           rest == AddConfigsLoop(
                     IF ok THEN AppendNew(list, parsed.sync_pairs) ELSE list,
                     Tail(config_paths), files)
       IN  IF raised
           THEN [sync_pairs |-> list, success |-> <<>>, raised |-> TRUE]
           ELSE [sync_pairs |-> rest.sync_pairs,
                 success |-> <<ok>> \o rest.success,
                 raised |-> rest.raised]

FileHistoryItem(f, path, version, pair, is_source, is_synced) ==
  [file_name |-> BaseNameStr(path),
   modified_time |-> GetMTime(f, path),
   file_size |-> GetSize(f, path),
   version |-> version,
   file_path |-> path,
   folder_path |-> DirNameStr(path),
   sync_pair |-> pair,
   is_source |-> is_source,
   is_synced |-> is_synced]

(***************************************************************************)
(* load_file_history, the body of the loop over the pairs (lines 64-129):  *)
(* the items one pair contributes and whether the pair matched.            *)
(***************************************************************************)
SourceItems(f, file_path, pair, relative_path) ==
  IF file_path = StrOf(PathOf(pair.left_path) \o relative_path)
  THEN <<FileHistoryItem(f, file_path, "source", pair, TRUE, TRUE)>>
  ELSE <<>>

\* MirrorItems without the os.path.exists test of line 88
MirrorItemsUnchecked(f, pair, relative_path) ==
  LET right_path == StrOf(PathOf(pair.right_path) \o relative_path)
  IN  <<FileHistoryItem(f, right_path, "mirror", pair, FALSE, TRUE)>>

MirrorItems(f, pair, relative_path) ==
  LET right_path == StrOf(PathOf(pair.right_path) \o relative_path)
  IN  IF Exists(f, right_path)
      THEN <<FileHistoryItem(f, right_path, "mirror", pair, FALSE, TRUE)>>
      ELSE <<>>

VersioningItems(f, pair, relative_path) ==
  IF Len(pair.versioning_folder.parts) > 0
  THEN LET versioning_path_folder ==
             Parent(PathOf(pair.versioning_folder) \o relative_path)
           base_name == BaseName(relative_path)
           versioning_files ==
             Glob(f, versioning_path_folder, base_name, SplitExt(base_name))
           kept == SelectSeq(versioning_files, LAMBDA v : Exists(f, StrOf(v)))
       IN  [i \in 1..Len(kept) |->
              FileHistoryItem(f, StrOf(kept[i]), "archived", pair, FALSE, FALSE)]
  ELSE <<>>

ScanPair(f, file_path, pair) ==
  LET file_path_obj == PathOf(file_path)
      left_base_obj == PathOf(pair.left_path)
  IN  IF RelativeToRaises(file_path_obj, left_base_obj)
      THEN [items |-> <<>>, matched |-> FALSE]
      ELSE LET relative_path == RelativeTo(file_path_obj, left_base_obj)
               src == SourceItems(f, file_path, pair, relative_path)
           IN  [items |-> src \o MirrorItems(f, pair, relative_path)
                              \o VersioningItems(f, pair, relative_path),
                matched |-> Len(src) > 0]

(***************************************************************************)
(* Errors inside the loop.  faults names what goes wrong during one call:  *)
(* vanish, the files that are there when os.path.exists or the listing     *)
(* sees them and gone when os.path.getmtime reads them (FileNotFoundError, *)
(* an OSError); denied, the pairs whose versioning folder cannot be listed *)
(* (the glob of line 109 raises an OSError).                               *)
(***************************************************************************)
Faults(vanish, denied) == [vanish |-> vanish, denied |-> denied]
NoFaults == Faults({}, {})

\* the try block of lines 66-122 for one pair: the items appended before the
\* first exception, has_matched, and whether an exception other than
\* ValueError left the block
\* the candidates the block reaches, in the order it reads them
Reached(ok, listed) ==
  IF listed THEN ok.items
  ELSE SelectSeq(ok.items, LAMBDA it : it.is_source \/ it.is_synced)
\* the places of the candidates whose read raises
Vanished(reach, vanish) ==
  {k \in 1..Len(reach) : PathOf(reach[k].file_path) \in vanish}
\* the first read that raises
FirstOf(bad) == CHOOSE k \in bad : \A j \in bad : k <= j
\* what the block leaves: the items read before the first failing read, or
\* all it reaches, and an error when the listing of line 109 raises
TryOutcome(ok, reach, bad, listed, inside) ==
  IF bad # {}
  THEN [items |-> SubSeq(reach, 1, FirstOf(bad) - 1), matched |-> ok.matched,
        error |-> TRUE]
  ELSE [items |-> reach, matched |-> ok.matched, error |-> inside /\ ~listed]
\* the block over the candidates it reaches
TryReached(ok, reach, vanish, listed, inside) ==
  TryOutcome(ok, reach, Vanished(reach, vanish), listed, inside)
\* the block over the items of a pair, the versioning folder listed or not
TryListed(ok, vanish, listed, inside) ==
  TryReached(ok, Reached(ok, listed), vanish, listed, inside)
\* the try block of one pair under the faults of a call
TryPair(f, file_path, pair, faults) ==
  TryListed(ScanPair(f, file_path, pair), faults.vanish,
            pair \notin faults.denied \/ pair.versioning_folder.parts = <<>>,
            ~RelativeToRaises(PathOf(file_path), PathOf(pair.left_path)))

\* no handler around the try block: the exception leaves load_file_history
PropagatePairError(out) == out

\* except Exception as e: print(...); continue  (lines 127-129)
SwallowPairError(out) == [out EXCEPT !.error = FALSE]

\* the loop over sync_pairs: history_data and has_matched before the sort,
\* and whether an exception has left the loop
\* one more turn of the loop: history_data.append and has_matched of a pair
\* after those of the pairs before it
Joined(before, this) ==
  IF before.raised THEN before
  ELSE [items |-> before.items \o this.items,
        matched |-> before.matched \/ this.matched,
        raised |-> this.error]
RECURSIVE ScanPairsWith(_, _, _, _)
ScanPairsWith(f, file_path, sync_pairs, faults) ==
  IF Len(sync_pairs) = 0
  THEN [items |-> <<>>, matched |-> FALSE, raised |-> FALSE]
  ELSE Joined(ScanPairsWith(f, file_path,
                             SubSeq(sync_pairs, 1, Len(sync_pairs) - 1), faults),
              SwallowPairError(TryPair(f, file_path, sync_pairs[Len(sync_pairs)],
                                       faults)))

\* the loop when nothing goes wrong
ScanPairs(f, file_path, sync_pairs) ==
  ScanPairsWith(f, file_path, sync_pairs, NoFaults)

\* a list left in the order of emission
SortNothing(items) == items

\* history_data.sort(key=modified_time, reverse=True): a stable sort
RECURSIVE SortByTimeDesc(_)
InsertByTimeDesc(sorted, x) ==
  LET keep == {i \in 1..Len(sorted) : sorted[i].modified_time >= x.modified_time}
      k == IF keep = {} THEN 0 ELSE CHOOSE i \in keep : \A j \in keep : j <= i
  IN  SubSeq(sorted, 1, k) \o <<x>> \o SubSeq(sorted, k + 1, Len(sorted))
SortByTimeDesc(items) ==
  IF Len(items) = 0 THEN <<>>
  ELSE InsertByTimeDesc(SortByTimeDesc(SubSeq(items, 1, Len(items) - 1)),
                        items[Len(items)])


(***************************************************************************)
(* FILE_HISTORY_CACHE: a dictionary from the file_path string to the tuple *)
(* (history_data, has_matched).  A result also carries two marks that the   *)
(* verification keeps up to date: oldPairs, the pair list was replaced      *)
(* after the scan that produced the result had read it; preClear,           *)
(* FileHistoryView.refresh has cleared the entry of the path after the scan *)
(* that produced the result began.                                          *)
(***************************************************************************)
EmptyCache == [k \in {} |-> TRUE]

HistoryResult(items, has_matched, oldPairs, preClear) ==
  [items |-> items, has_matched |-> has_matched, oldPairs |-> oldPairs,
   preClear |-> preClear]

\* a clear that drops every entry whatever path it is given
ClearWhole(c, file_path) == [k \in {} |-> TRUE]

\* clear_file_history_cache(file_path)
ClearFileHistoryCache(c, file_path) ==
  [k \in DOMAIN c \ {file_path} |-> c[k]]
\* clear_file_history_cache()
ClearFileHistoryCacheAll(c) == EmptyCache

\* a cache that forgets what it is given
CacheStoreNothing(c, file_path, value) == c

\* FILE_HISTORY_CACHE[file_path] = history_data, has_matched
CacheStore(c, file_path, value) ==
  [k \in DOMAIN c \cup {file_path} |-> IF k = file_path THEN value ELSE c[k]]

\* PathManager.instance().is_valid(path), for a local path
IsValid(f, s) == Exists(f, s)

(***************************************************************************)
(* load_file_history(file_path, sync_pairs) run without interruption:      *)
(* the value returned, the cache afterwards, whether the pair folders were *)
(* probed, whether the value came from the cache and whether the call      *)
(* ended by an exception (it then returns no value and stores none).       *)
(***************************************************************************)
\* lines 134-137: the sorted result is stored and returned
Stored(c, file_path, value) ==
  [value |-> value, cache |-> CacheStore(c, file_path, value),
   scanned |-> TRUE, hit |-> FALSE, raised |-> FALSE]
\* lines 131-137 after the loop, unless an exception has left the call
AfterScan(c, file_path, scan) ==
  IF scan.raised
  THEN [value |-> HistoryResult(<<>>, FALSE, FALSE, FALSE), cache |-> c,
        scanned |-> TRUE, hit |-> FALSE, raised |-> TRUE]
  ELSE Stored(c, file_path,
              HistoryResult(SortByTimeDesc(scan.items), scan.matched, FALSE, FALSE))
LoadFileHistoryWith(f, c, file_path, sync_pairs, faults) ==
  IF ~IsValid(f, file_path)
  THEN [value |-> HistoryResult(<<>>, FALSE, FALSE, FALSE), cache |-> c,
        scanned |-> FALSE, hit |-> FALSE, raised |-> FALSE]
  ELSE IF file_path \in DOMAIN c
  THEN [value |-> c[file_path], cache |-> c, scanned |-> FALSE, hit |-> TRUE,
        raised |-> FALSE]
  ELSE AfterScan(c, file_path, ScanPairsWith(f, file_path, sync_pairs, faults))

\* a load_file_history that looks into the cache before the validity test
LoadFileHistoryCacheFirst(f, c, file_path, sync_pairs) ==
  IF file_path \in DOMAIN c
  THEN [value |-> c[file_path], cache |-> c, scanned |-> FALSE, hit |-> TRUE,
        raised |-> FALSE]
  ELSE LoadFileHistoryWith(f, c, file_path, sync_pairs, NoFaults)

LoadFileHistory(f, c, file_path, sync_pairs) ==
  LoadFileHistoryWith(f, c, file_path, sync_pairs, NoFaults)

(***************************************************************************)
(* The remarks store (file_remarks_model.py).  The table FileRemarks is    *)
(* the sequence of its rows in rowid order; a row has file_path, file_hash *)
(* and remarks.  The bytes of a file are a number, 0 for a file that is    *)
(* not there; sha256 is taken as injective, so the hash of a file is its   *)
(* bytes, and NoHash is the "" calculate_file_hash returns for a file it   *)
(* cannot read.  fails says which storage operation of a call raises:      *)
(* "exec" the first statement, "commit" the commit, "none" neither.        *)
(***************************************************************************)
\* remarks.strip() on the texts of the model
Strip(remarks) ==
  IF remarks = " " THEN "" ELSE IF remarks = " x " THEN "x" ELSE remarks
NoHash == 0
\* utils.calculate_file_hash(file_path)
CalculateFileHash(bytes, file_path) ==
  IF PathOf(file_path) \in DOMAIN bytes THEN bytes[PathOf(file_path)] ELSE NoHash
\* a path kept as it is written
PathAsWritten(file_path) == file_path
\* FileRemarksManager._normalize_path
NormalizePath(file_path) == AsPosix(file_path)
FileRemarks(file_path, file_hash, remarks) ==
  [file_path |-> file_path, file_hash |-> file_hash, remarks |-> remarks]
\* the lowest element of a set of rows, 0 for the empty set
FirstRow(rows) == IF rows = {} THEN 0 ELSE CHOOSE k \in rows : \A j \in rows : k <= j
\* select(FileRemarks).where(FileRemarks.file_path == normalized_path).first()
FirstByPath(table, normalized_path) ==
  FirstRow({k \in 1..Len(table) : table[k].file_path = normalized_path})
\* select(FileRemarks).where(FileRemarks.file_hash == file_hash).first(),
\* which the code runs only for a file_hash that is not ""
FirstByHash(table, file_hash) ==
  IF file_hash = NoHash THEN 0
  ELSE FirstRow({k \in 1..Len(table) : table[k].file_hash = file_hash})
\* session.delete(result)
WithoutRow(table, k) == SubSeq(table, 1, k - 1) \o SubSeq(table, k + 1, Len(table))

\* how a call ends: the table it leaves, what it returns, whether a storage
\* operation raised inside it (failed) and whether an exception left it
Returned(table, result) ==
  [table |-> table, result |-> result, failed |-> FALSE, raised |-> FALSE]
\* an exception that nothing catches
Propagated(table, result) ==
  [table |-> table, result |-> result, failed |-> TRUE, raised |-> TRUE]
\* except Exception: logger.error(...); return None / False
Caught(table, result) ==
  [table |-> table, result |-> result, failed |-> TRUE, raised |-> FALSE]

\* a lookup that asks for the hash before the path
GetRemarksHashFirst(table, normalized_path, byPath, byHash, fails) ==
  IF fails # "none" THEN Caught(table, "")
  ELSE IF byHash # 0 THEN Returned(table, table[byHash].remarks)
  ELSE IF byPath # 0 THEN Returned(table, table[byPath].remarks)
  ELSE Returned(table, "")
\* a lookup that stores the queried path in the row it found by hash
GetRemarksRepointing(table, normalized_path, byPath, byHash, fails) ==
  IF fails # "none" THEN Caught(table, "")
  ELSE IF byPath # 0 THEN Returned(table, table[byPath].remarks)
  ELSE IF byHash # 0
  THEN Returned([table EXCEPT ![byHash].file_path = normalized_path],
                table[byHash].remarks)
  ELSE Returned(table, "")
\* get_remarks_record followed by "record.remarks if record else ''": the
\* record found by hash is returned as a new FileRemarks object with
\* file_path = normalized_path, the session is never committed
GetRemarksAt(table, normalized_path, byPath, byHash, fails) ==
  IF fails # "none" THEN Caught(table, "")
  ELSE IF byPath # 0 THEN Returned(table, table[byPath].remarks)
  ELSE IF byHash # 0 THEN Returned(table, table[byHash].remarks)
  ELSE Returned(table, "")
GetRemarks(table, bytes, file_path, fails) ==
  GetRemarksAt(table, NormalizePath(file_path),
               FirstByPath(table, NormalizePath(file_path)),
               FirstByHash(table, CalculateFileHash(bytes, file_path)), fails)

\* session.commit() of a changed table
Commit(table, changed, fails) ==
  IF fails = "commit" THEN Caught(table, FALSE) ELSE Returned(changed, TRUE)

\* delete_remarks: lines 149-176
DeleteRemarksAt(table, byPath, file_hash, byHash, fails) ==
  IF fails = "exec" THEN Caught(table, FALSE)
  ELSE IF byPath # 0 THEN Commit(table, WithoutRow(table, byPath), fails)
  ELSE IF file_hash # NoHash
  THEN IF byHash # 0 THEN Commit(table, WithoutRow(table, byHash), fails)
       ELSE Returned(table, TRUE)
  ELSE Returned(table, FALSE)
DeleteRemarks(table, bytes, file_path, fails) ==
  DeleteRemarksAt(table, FirstByPath(table, NormalizePath(file_path)),
                  CalculateFileHash(bytes, file_path),
                  FirstByHash(table, CalculateFileHash(bytes, file_path)), fails)

\* a set_remarks that looks for the hash before the path
SetTargetHashFirst(byPath, byHash) ==
  IF byHash # 0 THEN [kind |-> "hash", row |-> byHash]
  ELSE IF byPath # 0 THEN [kind |-> "path", row |-> byPath]
  ELSE [kind |-> "insert", row |-> 0]
\* the row set_remarks writes: lines 109-141
SetTarget(byPath, byHash) ==
  IF byPath # 0 THEN [kind |-> "path", row |-> byPath]
  ELSE IF byHash # 0 THEN [kind |-> "hash", row |-> byHash]
  ELSE [kind |-> "insert", row |-> 0]
\* the table after the write
SetApplied(table, target, normalized_path, file_hash, remarks) ==
  IF target.kind = "path"
  THEN [table EXCEPT ![target.row].remarks = remarks]
  ELSE IF target.kind = "hash"
  THEN [table EXCEPT ![target.row].file_path = normalized_path,
                     ![target.row].remarks = remarks]
  ELSE Append(table, FileRemarks(normalized_path, file_hash, remarks))
\* set_remarks for a text that is not empty after strip()
SetRemarksAt(table, target, normalized_path, file_hash, remarks, fails) ==
  IF fails = "exec" THEN Caught(table, FALSE)
  ELSE Commit(table, SetApplied(table, target, normalized_path, file_hash, remarks),
              fails)
\* set_remarks: lines 98-145
SetRemarks(table, bytes, file_path, remarks, fails) ==
  IF Strip(remarks) = "" THEN DeleteRemarks(table, bytes, file_path, fails)
  ELSE SetRemarksAt(table,
                    SetTarget(FirstByPath(table, NormalizePath(file_path)),
                              FirstByHash(table, CalculateFileHash(bytes, file_path))),
                    NormalizePath(file_path), CalculateFileHash(bytes, file_path),
                    Strip(remarks), fails)

(***************************************************************************)
(* State.                                                                  *)
(***************************************************************************)
VARIABLES
  fs,            \* the filesystem: file -> modification time, 0 when absent
  cache,         \* FILE_HISTORY_CACHE
  sync_pairs,    \* SyncConfigModel.sync_pairs; FileHistoryModel.sync_pairs and
                 \* every worker's sync_pairs are this same list object
  current_file,  \* FileHistoryModel.current_file
  history_data,  \* FileHistoryModel.history_data
  worker,        \* FileHistoryModel.worker: the refresh call that created it, 0 for None
  workers,       \* the FileHistoryWorker threads, by the refresh call that created them
  queue,         \* finished signals posted to the interactive thread, not yet delivered
  gui,           \* what the running handler of the interactive thread has still to do
  current_file_path, \* FileHistoryView.current_file_path
  file_list,     \* FileHistoryView.file_list
  requests,      \* number of FileHistoryModel.refresh calls so far
  loading,       \* refresh calls whose HistoryLoadStarted awaits its HistoryLoadFinished
  unannounced,   \* a refresh call emitted HistoryLoadFinished and no HistoryLoadStarted
  installed,     \* provenance of the last result _handle_worker_finished installed
  lastReturn,    \* how the last load_file_history call got the value it returned
  lastCall,      \* the last completed load_file_history call of a single caller
  prevCall,      \* the completed call before it, forgotten at an invalidation
  input,         \* arguments drawn for a single resolution
  config_files,  \* the documents behind the configuration paths
  sync_config_paths, \* SyncConfigModel.sync_config_paths
  file_remarks,  \* the table FileRemarks of the remarks database
  file_bytes,    \* the bytes of the files remarks are attached to
  args_file,     \* ARGS_TEMP_PKL_FILE: whether it exists and the list pickled in it
  launches,      \* the secondary launches: where each is in initSingleton
  posted,        \* NEW_INSTANCE_MESSAGEs posted to the primary, on_new_instance not yet run
  primary,       \* where the primary is in on_new_instance, and the list it read
  handed         \* how often each path was passed to _handle_file_paths

vars == <<fs, cache, sync_pairs, current_file, history_data, worker, workers,
          queue, gui, current_file_path, file_list, requests, loading,
          unannounced, installed, lastReturn, lastCall, prevCall, input, config_files,
          sync_config_paths, file_remarks, file_bytes,
          args_file, launches, posted, primary, handed>>

\* the variables of the single-instance hand-off
handoffVars == <<args_file, launches, posted, primary, handed>>

\* the variables of the interactive part, left alone by single calls
guiModelVars == <<current_file, history_data, worker, workers, queue, gui,
                  current_file_path, file_list, requests, loading, unannounced,
                  installed, lastReturn>>

(***************************************************************************)
(* The pairs of the configuration files and the paths the user can name.   *)
(***************************************************************************)
Pair1 == SyncPair("job1", StrOf(FolderA), StrOf(FolderB), StrOf(FolderV), "c1")
Pair2 == SyncPair("job2", StrOf(FolderA), StrOf(FolderC), NoFile, "c2")
ConfigPairs == {Pair1, Pair2}
\* the documents of the configuration files c1 and c2
Job1Xml == XmlDoc(El(StrOf(FolderV)), <<XmlPair(El(StrOf(FolderA)), El(StrOf(FolderB)))>>)
Job2Xml == XmlDoc(Absent, <<XmlPair(El(StrOf(FolderA)), El(StrOf(FolderC)))>>)
\* the configuration paths the user can pick, and what is behind them at start
ConfigPaths == {"c1", "c2", "c3.FFS_BATCH", "notes.txt"}
ConfigFilesAtStart ==
  [c \in ConfigPaths |-> IF c = "c2" THEN Job2Xml ELSE Job1Xml]

NoValue == HistoryResult(<<>>, FALSE, FALSE, FALSE)
\* a FileHistoryWorker thread: where it is in run() / load_file_history (pc),
\* its file_path, how many pairs the loop has consumed (idx), the
\* history_data and has_matched gathered so far, the value to return
Thread(pc, file_path, idx, items, matched, oldPairs, preClear, value) ==
  [pc |-> pc, file_path |-> file_path, idx |-> idx, items |-> items,
   matched |-> matched, oldPairs |-> oldPairs, preClear |-> preClear,
   value |-> value]
\* a thread that was terminated
Ended(pc) == Thread(pc, NoFile, 0, <<>>, FALSE, FALSE, FALSE, NoValue)
NoThreads == [k \in {} |-> TRUE]

NoCall == [path |-> NoFile, pairs |-> <<>>, valid |-> FALSE, value |-> NoValue,
           scanned |-> FALSE, none |-> TRUE]
NoInput == [file_path |-> NoFile]
\* a load_file_history return: the value came from the cache (hit), and the
\* pair list was replaced after the scan that produced it had read it (old)
Return(hit, old) == [hit |-> hit, old |-> old]
Installed(latest, path, preClear) ==
  [latest |-> latest, path |-> path, preClear |-> preClear]

(***************************************************************************)
(* SpecResolve: one load_file_history call on an empty cache, for every    *)
(* filesystem, pair list and spelling of the queried path in the bounds.   *)
(***************************************************************************)
\* the same file written as str(Path), as Path.as_posix() and with a "." in it
Spellings(p) ==
  {StrOf(p), PathStr(PosixSep, p),
   PathStr(NativeSep, SubSeq(p, 1, Len(p) - 1) \o <<Dot>> \o <<p[Len(p)]>>)}

QueryPaths ==
  Spellings(FileA) \cup {StrOf(FileB), StrOf(FileZ), StrOf(FileV1), StrOf(FileABr)}

PairLists == {<<>>, <<Pair1>>, <<Pair2>>, <<Pair1, Pair2>>, <<Pair2, Pair1>>}

\* files whose modification time matters to the order of a result
TimedFiles == {FileA, FileB, FileV1, FileV2}
FsInputs ==
  {f \in [Files -> 0..MaxTime] : \A p \in Files \ TimedFiles : f[p] <= 1}

\* a completed call: its arguments, whether file_path existed when it was made,
\* the value returned and whether it probed the pair folders
Call(path, pairs, valid, value, scanned) ==
  [path |-> path, pairs |-> pairs, valid |-> valid, value |-> value,
   scanned |-> scanned, none |-> FALSE]

\* the files remarks are attached to: A\doc.txt is there, B\doc.txt is not
FileBytesAtStart == [f \in {FileA, FileB} |-> IF f = FileA THEN 1 ELSE 0]

\* the secondary launches and the command line of each: sys.argv[1:]
Launches == 1..3
Argv(s) == IF s = 1 THEN <<"f1">> ELSE IF s = 2 THEN <<"f2">> ELSE <<>>
HandoffPaths == {"f1", "f2"}
\* ARGS_TEMP_PKL_FILE does not exist
NoArgsFile == [exists |-> FALSE, args |-> <<>>]
\* ARGS_TEMP_PKL_FILE.write_bytes(pickle.dumps(new_args))
ArgsFile(new_args) == [exists |-> TRUE, args |-> new_args]
\* a secondary launch at a line of initSingleton, with the new_args it has
At(pc, new_args) == [pc |-> pc, new_args |-> new_args]
NotLaunched == At("none", <<>>)
\* the primary outside on_new_instance, and inside it with the args it read
PrimaryAt(pc, args) == [pc |-> pc, args |-> args]
PrimaryIdle == PrimaryAt("idle", <<>>)

InitModel ==
  /\ current_file = NoFile
  /\ history_data = <<>>
  /\ worker = 0
  /\ workers = NoThreads
  /\ queue = <<>>
  /\ gui = <<>>
  /\ current_file_path = NoFile
  /\ file_list = <<>>
  /\ requests = 0
  /\ loading = {}
  /\ unannounced = FALSE
  /\ installed = Installed(TRUE, NoFile, FALSE)
  /\ lastReturn = Return(FALSE, FALSE)
  /\ lastCall = NoCall
  /\ prevCall = NoCall
  /\ config_files = ConfigFilesAtStart
  /\ file_remarks = <<>>
  /\ file_bytes = FileBytesAtStart
  /\ args_file = NoArgsFile
  /\ launches = [s \in Launches |-> NotLaunched]
  /\ posted = 0
  /\ primary = PrimaryIdle
  /\ handed = [f \in HandoffPaths |-> 0]

InitResolve ==
  /\ InitModel
  /\ sync_config_paths = {}
  /\ fs \in FsInputs
  /\ sync_pairs \in PairLists
  /\ cache = EmptyCache
  /\ input \in [file_path : QueryPaths]

Resolve ==
  /\ lastCall.none
  /\ LET r == LoadFileHistory(fs, cache, input.file_path, sync_pairs)
     IN  /\ cache' = r.cache
         /\ lastCall' = Call(input.file_path, sync_pairs, IsValid(fs, input.file_path),
                             r.value, r.scanned)
  /\ UNCHANGED <<fs, sync_pairs, input, handoffVars, config_files, sync_config_paths, file_remarks, file_bytes, prevCall>>
  /\ UNCHANGED guiModelVars

NextResolve == Resolve

SpecResolve == InitResolve /\ [][NextResolve]_vars

(***************************************************************************)
(* Path ancestry, stated on the components of the resolved paths.          *)
(***************************************************************************)
UnderFolder(path, folder) == IsPrefix(PathOf(folder), PathOf(path))
StrictlyInside(path, folder) ==
  UnderFolder(path, folder) /\ Len(PathOf(path)) > Len(PathOf(folder))
ItemsOf(value) == {value.items[i] : i \in 1..Len(value.items)}

\* C8: has_matched returned by load_file_history(path, pairs) is true if and
\* only if some pair of pairs has the queried path under its left_path or
\* under its right_path.
C8_HasMatchedIffUnderLeftOrRight ==
  (~lastCall.none /\ lastCall.scanned) =>
    (lastCall.value.has_matched <=>
       \E i \in 1..Len(lastCall.pairs) :
          \/ UnderFolder(lastCall.path, lastCall.pairs[i].left_path)
          \/ UnderFolder(lastCall.path, lastCall.pairs[i].right_path))

\* C9: for an existing file strictly inside the left_path of a pair, the
\* result holds exactly one item with is_source = TRUE, and the file_path of
\* that item is the queried path.
C9_ExactlyOneSourceItem ==
  (/\ ~lastCall.none
   /\ lastCall.scanned
   /\ \E i \in 1..Len(lastCall.pairs) :
         StrictlyInside(lastCall.path, lastCall.pairs[i].left_path)) =>
    /\ Cardinality({i \in 1..Len(lastCall.value.items) :
                      lastCall.value.items[i].is_source}) = 1
    /\ \A it \in ItemsOf(lastCall.value) :
         it.is_source => it.file_path = lastCall.path

\* the path right_path/rel of a pair for a queried path under its left_path
MirrorPathOf(path, pair) ==
  PathOf(pair.right_path)
    \o SubSeq(PathOf(path), Len(PathOf(pair.left_path)) + 1, Len(PathOf(path)))
IsMirrorItem(it) == ~it.is_source /\ it.is_synced

\* C10: for a file under a pair's left_path with relative path rel, the
\* result of a resolution holds a mirror item (is_source = FALSE, is_synced =
\* TRUE) with path right_path/rel for that pair if and only if right_path/rel
\* exists on the filesystem; no mirror item is produced for a path that does
\* not exist.
C10_MirrorIffExists ==
  (~lastCall.none /\ lastCall.scanned) =>
    /\ \A i \in 1..Len(lastCall.pairs) :
         LET pair == lastCall.pairs[i] IN
         UnderFolder(lastCall.path, pair.left_path) =>
           ((\E it \in ItemsOf(lastCall.value) :
                /\ IsMirrorItem(it)
                /\ PathOf(it.file_path) = MirrorPathOf(lastCall.path, pair)
                /\ it.sync_pair = pair)
            <=> (MirrorPathOf(lastCall.path, pair) \in Files
                 /\ fs[MirrorPathOf(lastCall.path, pair)] > 0))
    /\ \A it \in ItemsOf(lastCall.value) :
         IsMirrorItem(it) =>
           (PathOf(it.file_path) \in Files /\ fs[PathOf(it.file_path)] > 0)

\* a resolution of a file under left_path whose mirror exists and is reported,
\* while the other pair of the list has no mirror file
C10_Witness ==
  /\ ~lastCall.none
  /\ lastCall.scanned
  /\ lastCall.pairs = <<Pair1, Pair2>>
  /\ PathOf(lastCall.path) = FileA
  /\ fs[FileB] > 0
  /\ fs[FileC] = 0
  /\ \E it \in ItemsOf(lastCall.value) : IsMirrorItem(it) /\ PathOf(it.file_path) = FileB


\* the path left_path/rel of a pair for a queried path under its right_path
LeftPathOf(path, pair) ==
  PathOf(pair.left_path)
    \o SubSeq(PathOf(path), Len(PathOf(pair.right_path)) + 1, Len(PathOf(path)))

\* C11: for an existing file under a pair's right_path with relative path
\* rel, the result holds an item for the queried file itself and, if
\* left_path/rel exists, an item for that left-side counterpart.
C11_RightSideSymmetric ==
  (~lastCall.none /\ lastCall.scanned) =>
    \A i \in 1..Len(lastCall.pairs) :
      LET pair == lastCall.pairs[i] IN
      StrictlyInside(lastCall.path, pair.right_path) =>
        /\ \E it \in ItemsOf(lastCall.value) :
             PathOf(it.file_path) = PathOf(lastCall.path) /\ it.sync_pair = pair
        /\ Exists(fs, StrOf(LeftPathOf(lastCall.path, pair))) =>
             \E it \in ItemsOf(lastCall.value) :
               /\ PathOf(it.file_path) = LeftPathOf(lastCall.path, pair)
               /\ it.sync_pair = pair

\* the name has the form  <name> <YYYY-MM-DD HHMMSS><ext>
IsTimestampedName(name) ==
  Len(name.stamps) > 0 /\ MatchesStampPattern(name.stamps[Len(name.stamps)])
IsArchivedItem(it) == ~it.is_source /\ ~it.is_synced

\* C12: for a queried file inside a pair's versioning_folder whose name has
\* the timestamped form, the result holds exactly one archived item for that
\* file for that pair and no source or mirror item for the same pair.
C12_VersioningFileArchivedOnly ==
  (~lastCall.none /\ lastCall.scanned) =>
    \A i \in 1..Len(lastCall.pairs) :
      LET pair == lastCall.pairs[i] IN
      (/\ pair.versioning_folder # NoFile
       /\ StrictlyInside(lastCall.path, pair.versioning_folder)
       /\ IsTimestampedName(BaseName(PathOf(lastCall.path)))) =>
        /\ Cardinality({k \in 1..Len(lastCall.value.items) :
              /\ lastCall.value.items[k].sync_pair = pair
              /\ IsArchivedItem(lastCall.value.items[k])
              /\ PathOf(lastCall.value.items[k].file_path) = PathOf(lastCall.path)}) = 1
        /\ \A it \in ItemsOf(lastCall.value) :
             it.sync_pair = pair => ~(it.is_source \/ IsMirrorItem(it))

\* entry is name followed by a space, a timestamp YYYY-MM-DD HHMMSS of digits
\* and the extension of name
IsVersionNameOf(entry, name) ==
  /\ entry.stem = name.stem
  /\ entry.ext = name.ext
  /\ Len(entry.stamps) = Len(name.stamps) + 1
  /\ SubSeq(entry.stamps, 1, Len(name.stamps)) = name.stamps
  /\ MatchesStampPattern(entry.stamps[Len(entry.stamps)])

\* the existing entries of versioning_folder/dirname(rel) that are versions of
\* the queried file, for a pair that has the file under its left_path
VersionsOf(f, path, pair) ==
  LET rel == RelativeTo(PathOf(path), PathOf(pair.left_path))
  IN  {e \in Files : /\ f[e] > 0
                     /\ Parent(e) = Parent(PathOf(pair.versioning_folder) \o rel)
                     /\ IsVersionNameOf(BaseName(e), BaseName(PathOf(path)))}
ArchivedOf(value, pair) ==
  {k \in 1..Len(value.items) :
     IsArchivedItem(value.items[k]) /\ value.items[k].sync_pair = pair}

\* C13: for a file under a pair's left_path and a pair with a non-empty
\* versioning_folder, the archived items returned for the pair are exactly
\* the existing entries of versioning_folder/dirname(rel) named after the
\* queried file with a timestamp and the file's extension; with A/doc.txt,
\* B/doc.txt and one such entry present the result has 3 items.
C13_ArchivedAreTheVersions ==
  (~lastCall.none /\ lastCall.scanned) =>
    /\ \A i \in 1..Len(lastCall.pairs) :
         LET pair == lastCall.pairs[i] IN
         (/\ StrictlyInside(lastCall.path, pair.left_path)
          /\ pair.versioning_folder # NoFile) =>
           /\ {PathOf(lastCall.value.items[k].file_path) :
                 k \in ArchivedOf(lastCall.value, pair)}
                = VersionsOf(fs, lastCall.path, pair)
           /\ Cardinality(ArchivedOf(lastCall.value, pair))
                = Cardinality(VersionsOf(fs, lastCall.path, pair))
    /\ (/\ lastCall.path = StrOf(FileA)
        /\ lastCall.pairs = <<Pair1>>
        /\ fs[FileB] > 0
        /\ Cardinality(VersionsOf(fs, lastCall.path, Pair1)) = 1) =>
         Len(lastCall.value.items) = 3

\* the items of a resolution in the order in which the loop emitted them
EmittedBy(call) == ScanPairs(fs, call.path, call.pairs).items
EmitIndex(emitted, it) == CHOOSE k \in 1..Len(emitted) : emitted[k] = it

\* C14: the list returned by load_file_history is sorted by modified_time in
\* descending order, and items with equal modified_time keep the order in
\* which they were emitted (pair-list order, within a pair source, mirror,
\* archived); the list holds the emitted items and nothing else.
C14_SortedDescendingStable ==
  (~lastCall.none /\ lastCall.scanned) =>
    LET items == lastCall.value.items
        emitted == EmittedBy(lastCall)
    IN  /\ Len(items) = Len(emitted)
        /\ \A k \in 1..Len(emitted) : \E i \in 1..Len(items) : items[i] = emitted[k]
        /\ \A i, j \in 1..Len(items) :
             i < j =>
               /\ items[i].modified_time >= items[j].modified_time
               /\ items[i].modified_time = items[j].modified_time =>
                    EmitIndex(emitted, items[i]) < EmitIndex(emitted, items[j])

\* a result of three items or more in which the sort has moved a later item
\* in front of two items of equal time, which kept their order
C14_Witness ==
  /\ ~lastCall.none
  /\ lastCall.scanned
  /\ Len(lastCall.value.items) >= 3
  /\ lastCall.value.items # EmittedBy(lastCall)
  /\ \E i, j \in 1..Len(lastCall.value.items) :
       /\ i < j
       /\ lastCall.value.items[i].modified_time = lastCall.value.items[j].modified_time

(***************************************************************************)
(* SpecFaults: one load_file_history call on an empty cache during which   *)
(* files vanish between the existence test and the read, or a versioning   *)
(* folder cannot be listed.                                                *)
(***************************************************************************)
\* the filesystems of the calls: the queried file is there, its mirrors and
\* versions are there or not
FaultFs ==
  {f \in [Files -> 0..1] :
     /\ f[FileA] = 1
     /\ \A p \in {FileABr, FileVBr, FileVBad, FileZ} : f[p] = 0}
FaultInputs ==
  {Faults(v, d) : v \in SUBSET {FileA, FileB, FileV1, FileV2}, d \in SUBSET {Pair1}}

\* a completed call that may have ended by an exception
FaultyCall(path, pairs, value, scanned, raised) ==
  [path |-> path, pairs |-> pairs, value |-> value, scanned |-> scanned,
   raised |-> raised, none |-> FALSE]

InitFaults ==
  /\ InitModel
  /\ sync_config_paths = {}
  /\ fs \in FaultFs
  /\ sync_pairs \in PairLists
  /\ cache = EmptyCache
  /\ input \in [file_path : {StrOf(FileA)}, faults : FaultInputs]

ResolveWithFaults ==
  /\ lastCall.none
  /\ LET r == LoadFileHistoryWith(fs, cache, input.file_path, sync_pairs, input.faults)
     IN  /\ cache' = r.cache
         /\ lastCall' = FaultyCall(input.file_path, sync_pairs, r.value, r.scanned,
                                   r.raised)
  /\ UNCHANGED <<fs, sync_pairs, input, handoffVars, config_files, sync_config_paths, file_remarks, file_bytes, prevCall>>
  /\ UNCHANGED guiModelVars

NextFaults == ResolveWithFaults

SpecFaults == InitFaults /\ [][NextFaults]_vars

\* what the call returns when nothing goes wrong
FaultFree(call) == LoadFileHistory(fs, EmptyCache, call.path, call.pairs).value

\* C15: if reading the size or modification time of one candidate file fails
\* (it vanished between the existence check or listing and the read), only
\* that single item is missing from the result: every other item of the same
\* pair and of all other pairs is still returned.
C15_OnlyTheUnreadableItemDropped ==
  (/\ ~lastCall.none
   /\ lastCall.scanned
   /\ input.faults.denied = {}
   /\ Cardinality(input.faults.vanish) = 1) =>
    \A it \in ItemsOf(FaultFree(lastCall)) :
      PathOf(it.file_path) \notin input.faults.vanish =>
        it \in ItemsOf(lastCall.value)

\* the pairs of the call without those in whose try block an error occurs
PairsNotFailing(call, faults) ==
  SelectSeq(call.pairs,
            LAMBDA sp : ~TryPair(fs, call.path, sp, faults).error)

\* C16: a filesystem error raised while probing one pair never propagates to
\* the caller and never affects other pairs: the call returns normally and
\* the items of the other pairs are those of a call without the failing pair.
C16_PairErrorsSwallowed ==
  (~lastCall.none /\ lastCall.scanned) =>
    LET rest == PairsNotFailing(lastCall, input.faults)
        ofRest(it) == \E i \in 1..Len(rest) : it.sync_pair = rest[i]
    IN  /\ ~lastCall.raised
        /\ SelectSeq(lastCall.value.items, ofRest)
             = LoadFileHistory(fs, EmptyCache, lastCall.path, rest).value.items

\* a call in which the pair listed first fails and the second pair has
\* contributed its mirror item
C16_Witness ==
  /\ ~lastCall.none
  /\ lastCall.scanned
  /\ lastCall.pairs = <<Pair1, Pair2>>
  /\ PairsNotFailing(lastCall, input.faults) = <<Pair2>>
  /\ \E it \in ItemsOf(lastCall.value) :
       it.sync_pair = Pair2 /\ PathOf(it.file_path) = FileC

(***************************************************************************)
(* SpecCache: load_file_history and clear_file_history_cache called one    *)
(* after the other by a single caller, while the filesystem changes.       *)
(***************************************************************************)
FsStart == [p \in Files |-> IF p \in {FileA, FileB, FileV1} THEN 1 ELSE 0]

CachePaths == {StrOf(FileA), PathStr(PosixSep, FileA)}
CachePairLists == {<<Pair1>>, <<Pair1, Pair2>>}

InitCache ==
  /\ InitModel
  /\ sync_config_paths = {}
  /\ fs = FsStart
  /\ sync_pairs = <<>>
  /\ cache = EmptyCache
  /\ input = NoInput

CallLoad(p, pairs) ==
  /\ LET r == LoadFileHistory(fs, cache, p, pairs)
     IN  /\ cache' = r.cache
         /\ lastCall' = Call(p, pairs, IsValid(fs, p), r.value, r.scanned)
  /\ prevCall' = lastCall
  /\ UNCHANGED <<fs, sync_pairs, input, handoffVars, config_files, sync_config_paths, file_remarks, file_bytes>>
  /\ UNCHANGED guiModelVars

CallClear(p) ==
  /\ cache' = ClearFileHistoryCache(cache, p)
  /\ lastCall' = IF lastCall.path = p THEN NoCall ELSE lastCall
  /\ prevCall' = NoCall
  /\ UNCHANGED <<fs, sync_pairs, input, handoffVars, config_files, sync_config_paths, file_remarks, file_bytes>>
  /\ UNCHANGED guiModelVars

CallClearAll ==
  /\ cache' = ClearFileHistoryCacheAll(cache)
  /\ lastCall' = NoCall
  /\ prevCall' = NoCall
  /\ UNCHANGED <<fs, sync_pairs, input, handoffVars, config_files, sync_config_paths, file_remarks, file_bytes>>
  /\ UNCHANGED guiModelVars

\* the world outside the program writes, creates or deletes a file
FsTouch(p, t) ==
  /\ fs[p] # t
  /\ fs' = [fs EXCEPT ![p] = t]
  /\ UNCHANGED <<cache, sync_pairs, input, handoffVars, config_files, sync_config_paths, file_remarks, file_bytes, lastCall, prevCall>>
  /\ UNCHANGED guiModelVars

NextCache ==
  \/ \E p \in CachePaths, pairs \in CachePairLists : CallLoad(p, pairs)
  \/ \E p \in CachePaths : CallClear(p)
  \/ CallClearAll
  \* the file asked for disappears and comes back; its mirror is rewritten
  \/ \E t \in 0..1 : FsTouch(FileA, t)
  \/ \E t \in 0..MaxTime : FsTouch(FileB, t)

SpecCache == InitCache /\ [][NextCache]_vars

\* two consecutive calls for the same existing path with the same pairs and
\* no invalidation of the path in between
ConsecutiveCalls ==
  /\ ~prevCall.none
  /\ ~lastCall.none
  /\ prevCall.path = lastCall.path
  /\ prevCall.pairs = lastCall.pairs
  /\ prevCall.valid
  /\ lastCall.valid

\* C7: for an existing path, two consecutive load_file_history calls with no
\* invalidation in between return the identical (items, has_matched), and the
\* second call does not probe the pair folders, whatever changed on the
\* filesystem in between.
C7_Memoization ==
  ConsecutiveCalls =>
    /\ lastCall.value.items = prevCall.value.items
    /\ lastCall.value.has_matched = prevCall.value.has_matched
    /\ ~lastCall.scanned

\* the second of two consecutive calls returned the memoized value although a
\* scan of the filesystem as it is now would give another one
C7_Witness ==
  /\ ConsecutiveCalls
  /\ lastCall.value.items = prevCall.value.items
  /\ lastCall.value.items #
       SortByTimeDesc(ScanPairs(fs, lastCall.path, lastCall.pairs).items)


\* C31: clear_file_history_cache(p) removes the entry keyed by p, if there
\* is one, and leaves every other entry as it was; clear_file_history_cache()
\* leaves no entry.
C31_ClearRemovesExactlyTheEntry ==
  [][/\ \A p \in CachePaths :
          CallClear(p) =>
            /\ DOMAIN cache' = DOMAIN cache \ {p}
            /\ \A k \in DOMAIN cache' : cache'[k] = cache[k]
            /\ p \notin DOMAIN cache => cache' = cache
     /\ CallClearAll => DOMAIN cache' = {}]_vars

\* the entry of one spelling of the path was cleared while the entry of the
\* other spelling is in the cache
C31_Witness ==
  /\ lastCall.none
  /\ prevCall.none
  /\ Cardinality(DOMAIN cache) = 1

UserPaths == {StrOf(FileA), StrOf(FileB)}
\* the configuration files of the interactive session
ConfigFiles == {"c1", "c2"}

Running(t) == t.pc \in {"start", "scan", "emit"}
RunningWorkers == {w \in DOMAIN workers : Running(workers[w])}

\* worker.terminate() without worker.wait(): the thread may still be running
TerminateNoWait(ws, w) == ws

\* worker.terminate(); worker.wait()
TerminateAndWait(ws, w) ==
  [k \in DOMAIN ws |->
     IF k = w /\ Running(ws[k]) THEN Ended("terminated") ELSE ws[k]]

\* FileHistoryModel.refresh(), for the value cf of current_file
Refresh(cf) ==
  /\ requests' = requests + 1
  /\ IF cf = NoFile
     THEN /\ history_data' = <<>>
          /\ unannounced' = TRUE
          /\ UNCHANGED <<worker, workers, loading>>
     ELSE LET req == requests + 1
              stopped == IF worker # 0 THEN TerminateAndWait(workers, worker)
                         ELSE workers
          IN  /\ loading' = loading \cup {req}
              /\ worker' = req
              /\ workers' =
                   [k \in DOMAIN stopped \cup {req} |->
                      IF k = req
                      THEN Thread("start", cf, 0, <<>>, FALSE, FALSE, FALSE, NoValue)
                      ELSE stopped[k]]
              /\ UNCHANGED <<history_data, unannounced>>

InList(p) == \E i \in 1..Len(file_list) : file_list[i] = p

Init ==
  /\ InitModel
  /\ fs = FsStart
  /\ sync_pairs \in {<<>>, <<Pair1>>}
  /\ sync_config_paths = {sync_pairs[i].sync_config_path : i \in 1..Len(sync_pairs)}
  /\ cache = EmptyCache
  /\ input = NoInput

\* FileHistoryView._add_files_to_list([p]) (a dropped file, a file of the
\* command line): _add_file_to_list(p), then FileHistoryView.set_current_file(p)
\* and in it FileHistoryModel.set_current_file
AddFiles(p) ==
  /\ gui = <<>>
  /\ requests < MaxRequests
  /\ LET fp == AsPosix(p)
         ok == IsValid(fs, p) /\ IsFile(fs, p)
         isNew == ok /\ ~InList(fp)
         \* _update_file_status(fp) -> get_file_history -> load_file_history
         r == LoadFileHistory(fs, cache, fp, sync_pairs)
     IN  /\ file_list' = IF isNew THEN Append(file_list, fp) ELSE file_list
         /\ cache' = IF isNew THEN r.cache ELSE cache
         /\ lastReturn' = IF isNew THEN Return(r.hit, r.value.oldPairs)
                          ELSE lastReturn
         /\ IF ~ok
            THEN /\ current_file_path' = NoFile
                 /\ current_file' = NoFile
                 /\ Refresh(NoFile)
            ELSE /\ current_file_path' = fp
                 /\ IF fp = current_file
                    THEN UNCHANGED <<current_file, history_data, requests, loading,
                                     unannounced, worker, workers>>
                    ELSE /\ current_file' = fp
                         /\ Refresh(fp)
  /\ UNCHANGED <<fs, sync_pairs, queue, gui, installed, prevCall, input, handoffVars, config_files, sync_config_paths, file_remarks, file_bytes, lastCall>>

\* results for file_path whose scan began before the entry of file_path is
\* cleared: those of the threads that scan it or have returned from the
\* scan, and those awaiting delivery
ThreadsBeforeClear(ws, file_path) ==
  [k \in DOMAIN ws |->
     IF ws[k].file_path # file_path THEN ws[k]
     ELSE IF ws[k].pc = "scan" THEN [ws[k] EXCEPT !.preClear = TRUE]
     ELSE IF ws[k].pc = "emit" THEN [ws[k] EXCEPT !.value.preClear = TRUE]
     ELSE ws[k]]
QueueBeforeClear(q, file_path) ==
  [i \in 1..Len(q) |->
     IF q[i].path = file_path THEN [q[i] EXCEPT !.value.preClear = TRUE] ELSE q[i]]
CacheBeforeClear(c, file_path) ==
  [k \in DOMAIN c |->
     IF k = file_path THEN [c[k] EXCEPT !.preClear = TRUE] ELSE c[k]]

\* FileHistoryView.refresh up to the return of clear_file_history_cache;
\* the rest of the handler is left in gui
ViewRefresh ==
  /\ gui = <<>>
  /\ requests < MaxRequests
  /\ cache' = CacheBeforeClear(ClearFileHistoryCache(cache, current_file_path),
                               current_file_path)
  /\ workers' = ThreadsBeforeClear(workers, current_file_path)
  /\ queue' = QueueBeforeClear(queue, current_file_path)
  /\ gui' = <<[op |-> "refresh", path |-> NoFile]>>
              \o [i \in 1..Len(file_list) |-> [op |-> "status", path |-> file_list[i]]]
  /\ UNCHANGED <<fs, sync_pairs, current_file, history_data, worker,
                 current_file_path, file_list, requests, loading, unannounced,
                 installed, lastCall, prevCall, input, handoffVars, config_files, sync_config_paths, file_remarks, file_bytes, lastReturn>>

\* the pair list after SyncConfigModel.remove_config(index), index.row() = i - 1
RemovedPair(list, i) == SubSeq(list, 1, i - 1) \o SubSeq(list, i + 1, Len(list))

\* the threads in the loop over the pair list when the list becomes new: the
\* pairs a thread has consumed are no longer the first pairs of the list
ThreadsOfOldPairs(ws, old, new) ==
  [k \in DOMAIN ws |->
     IF /\ ws[k].pc = "scan"
        /\ \/ ws[k].idx > Len(new)
           \/ SubSeq(new, 1, ws[k].idx) # SubSeq(old, 1, ws[k].idx)
     THEN [ws[k] EXCEPT !.oldPairs = TRUE]
     ELSE ws[k]]
CacheOfOldPairs(c, old, new) ==
  [k \in DOMAIN c |-> IF old # new THEN [c[k] EXCEPT !.oldPairs = TRUE] ELSE c[k]]

\* FileHistoryModel.set_sync_pairs up to the return of
\* clear_file_history_cache(); its refresh() is left in gui
SetSyncPairs(list) ==
  /\ sync_pairs' = list
  /\ cache' = CacheOfOldPairs(ClearFileHistoryCacheAll(cache), sync_pairs, list)
  /\ workers' = ThreadsOfOldPairs(workers, sync_pairs, list)
  /\ gui' = <<[op |-> "refresh", path |-> NoFile]>>
  /\ UNCHANGED <<fs, current_file, history_data, worker, queue,
                 current_file_path, file_list, requests, loading, unannounced,
                 installed, lastCall, prevCall, input, handoffVars, config_files, file_remarks, file_bytes, lastReturn>>

\* SyncConfigModel.add_configs, SyncConfigChanged -> _handle_sync_config_change
AddConfigs(config) ==
  /\ gui = <<>>
  /\ requests < MaxRequests
  /\ SetSyncPairs(AddConfigsLoop(sync_pairs, <<config>>, config_files).sync_pairs)
  /\ sync_config_paths' = UpdatedPaths(sync_config_paths, <<config>>)

\* SyncConfigModel.remove_config, SyncConfigChanged -> _handle_sync_config_change
RemoveConfig(i) ==
  /\ gui = <<>>
  /\ requests < MaxRequests
  /\ i \in 1..Len(sync_pairs)
  /\ SetSyncPairs(RemovedPair(sync_pairs, i))
  /\ UNCHANGED sync_config_paths

\* the handler goes on: FileHistoryModel.refresh()
GuiRefresh ==
  /\ gui # <<>>
  /\ Head(gui).op = "refresh"
  /\ Refresh(current_file)
  /\ gui' = Tail(gui)
  /\ UNCHANGED <<fs, cache, sync_pairs, current_file, queue, current_file_path,
                 file_list, installed, lastCall, prevCall, input, handoffVars, config_files, sync_config_paths, file_remarks, file_bytes, lastReturn>>

\* the handler goes on: FileHistoryView._update_file_status(path), which
\* resolves the path on the interactive thread
GuiUpdateFileStatus ==
  /\ gui # <<>>
  /\ Head(gui).op = "status"
  /\ LET fp == Head(gui).path
         r == LoadFileHistory(fs, cache, fp, sync_pairs)
     IN  /\ cache' = r.cache
         /\ lastReturn' = Return(r.hit, r.value.oldPairs)
  /\ gui' = Tail(gui)
  /\ UNCHANGED <<fs, sync_pairs, current_file, history_data, worker, workers, queue,
                 current_file_path, file_list, requests, loading, unannounced,
                 installed, prevCall, input, handoffVars, config_files, sync_config_paths, file_remarks, file_bytes, lastCall>>

\* FileHistoryWorker.run enters load_file_history: lines 54-60
WorkerBegin(w) ==
  /\ w \in DOMAIN workers
  /\ workers[w].pc = "start"
  /\ LET t == workers[w]
     IN  IF ~IsValid(fs, t.file_path)
         THEN /\ workers' = [workers EXCEPT ![w] =
                   Thread("emit", t.file_path, 0, <<>>, FALSE, FALSE, FALSE, NoValue)]
              /\ lastReturn' = Return(FALSE, FALSE)
         ELSE IF t.file_path \in DOMAIN cache
         THEN /\ workers' = [workers EXCEPT ![w] =
                   Thread("emit", t.file_path, 0, <<>>, FALSE, FALSE, FALSE,
                          cache[t.file_path])]
              /\ lastReturn' = Return(TRUE, cache[t.file_path].oldPairs)
         ELSE /\ workers' = [workers EXCEPT ![w] =
                   Thread("scan", t.file_path, 0, <<>>, FALSE, FALSE, FALSE, NoValue)]
              /\ UNCHANGED lastReturn
  /\ UNCHANGED <<fs, cache, sync_pairs, current_file, history_data, worker, queue, gui,
                 current_file_path, file_list, requests, loading, unannounced,
                 installed, prevCall, input, handoffVars, config_files, sync_config_paths, file_remarks, file_bytes, lastCall>>

\* one turn of the loop "for pair in sync_pairs" (lines 63-129), on the list
\* as it is now
WorkerScanPair(w) ==
  /\ w \in DOMAIN workers
  /\ workers[w].pc = "scan"
  /\ workers[w].idx < Len(sync_pairs)
  /\ LET t == workers[w]
         one == ScanPair(fs, t.file_path, sync_pairs[t.idx + 1])
     IN  workers' = [workers EXCEPT ![w] =
           Thread("scan", t.file_path, t.idx + 1, t.items \o one.items,
                  t.matched \/ one.matched, t.oldPairs, t.preClear, NoValue)]
  /\ UNCHANGED <<fs, cache, sync_pairs, current_file, history_data, worker, queue, gui,
                 current_file_path, file_list, requests, loading, unannounced,
                 installed, lastCall, prevCall, input, handoffVars, config_files, sync_config_paths, file_remarks, file_bytes, lastReturn>>

\* the loop is over: sort, store in the cache, return (lines 131-137)
WorkerStore(w) ==
  /\ w \in DOMAIN workers
  /\ workers[w].pc = "scan"
  /\ workers[w].idx >= Len(sync_pairs)
  /\ LET t == workers[w]
         value == HistoryResult(SortByTimeDesc(t.items), t.matched,
                                t.oldPairs, t.preClear)
     IN  /\ cache' = CacheStore(cache, t.file_path, value)
         /\ workers' = [workers EXCEPT ![w] =
              Thread("emit", t.file_path, 0, <<>>, FALSE, FALSE, FALSE, value)]
         /\ lastReturn' = Return(FALSE, value.oldPairs)
  /\ UNCHANGED <<fs, sync_pairs, current_file, history_data, worker, queue, gui,
                 current_file_path, file_list, requests, loading, unannounced,
                 installed, prevCall, input, handoffVars, config_files, sync_config_paths, file_remarks, file_bytes, lastCall>>

\* self.finished.emit(history_data, has_matched): posted to the interactive
\* thread; run() returns and the thread is over
WorkerEmit(w) ==
  /\ w \in DOMAIN workers
  /\ workers[w].pc = "emit"
  /\ queue' = Append(queue, [req |-> w, path |-> workers[w].file_path,
                             value |-> workers[w].value])
  /\ workers' = [k \in DOMAIN workers \ {w} |-> workers[k]]
  /\ UNCHANGED <<fs, cache, sync_pairs, current_file, history_data, worker, gui,
                 current_file_path, file_list, requests, loading, unannounced,
                 installed, lastCall, prevCall, input, handoffVars, config_files, sync_config_paths, file_remarks, file_bytes, lastReturn>>

\* FileHistoryModel._handle_worker_finished, with the slot of the view on
\* HistoryFileChanged (FileHistoryView._handle_history_file_changed)
HandleWorkerFinished ==
  /\ gui = <<>>
  /\ queue # <<>>
  /\ LET ev == Head(queue)
         status == current_file_path # NoFile /\ InList(current_file_path)
         r == LoadFileHistory(fs, cache, current_file_path, sync_pairs)
     IN  /\ history_data' = ev.value.items
         /\ installed' = Installed(ev.req = requests, ev.path, ev.value.preClear)
         /\ cache' = IF status THEN r.cache ELSE cache
         /\ lastReturn' = IF status THEN Return(r.hit, r.value.oldPairs)
                          ELSE lastReturn
         /\ loading' = loading \ {ev.req}
  /\ queue' = Tail(queue)
  /\ UNCHANGED <<fs, sync_pairs, current_file, worker, workers, gui,
                 current_file_path, file_list, requests, unannounced, prevCall,
                 input, handoffVars, config_files, sync_config_paths, file_remarks, file_bytes, lastCall>>

\* files the world outside the program deletes while the program runs
SpecTouched == {FileB}

Next ==
  \/ \E p \in UserPaths : AddFiles(p)
  \/ ViewRefresh
  \/ \E c \in ConfigFiles : AddConfigs(c)
  \/ \E i \in 1..2 : RemoveConfig(i)
  \/ GuiRefresh
  \/ GuiUpdateFileStatus
  \/ \E w \in 1..MaxRequests : WorkerBegin(w)
  \/ \E w \in 1..MaxRequests : WorkerScanPair(w)
  \/ \E w \in 1..MaxRequests : WorkerStore(w)
  \/ \E w \in 1..MaxRequests : WorkerEmit(w)
  \/ HandleWorkerFinished
  \/ \E p \in SpecTouched : FsTouch(p, 0)

Spec == Init /\ [][Next]_vars


\* no handler is running, no finished signal awaits delivery, no worker runs
Quiescent == gui = <<>> /\ queue = <<>> /\ RunningWorkers = {}

\* C1: _handle_worker_finished never installs into history_data a result of
\* a worker that was started for an earlier request than the most recent
\* one (every refresh call is a request: a later refresh, a change to
\* another file, a change to no file).
C1_NoAbandonedResultInstalled == installed.latest

\* C2: once no worker is running and no completion is pending, history_data
\* is the result of the resolution started last, for current_file, and is
\* empty when current_file is empty.
C2_LastStartedObserved ==
  Quiescent =>
    IF current_file = NoFile
    THEN history_data = <<>>
    ELSE installed.path = current_file /\ installed.latest

\* C3: every refresh call emits exactly one HistoryLoadStarted followed by
\* exactly one HistoryLoadFinished: no HistoryLoadFinished without the
\* HistoryLoadStarted of its call, and once everything has come to rest each
\* HistoryLoadStarted has had its HistoryLoadFinished.
C3_StartedFinishedPaired ==
  /\ ~unannounced
  /\ Quiescent => loading = {}

\* C4: at every moment at most one FileHistoryWorker of the FileHistoryModel
\* is running.
C4_AtMostOneWorkerRunning == Cardinality(RunningWorkers) <= 1

\* a refresh has terminated a worker in mid-run and started the next one
C4_Witness ==
  /\ \E w \in DOMAIN workers : workers[w].pc = "terminated"
  /\ RunningWorkers # {}

\* C5: after set_sync_pairs no load_file_history call returns a result that
\* was computed against the previous pair list: no call finds in the cache
\* a result of a scan that had read the list before it was replaced.
C5_NoResultOfPreviousPairs == ~(lastReturn.hit /\ lastReturn.old)

\* C6: after clear_file_history_cache(p) of FileHistoryView.refresh, a result
\* delivered for p comes from a scan that began after the invalidation.
C6_InvalidationForcesRescan == ~installed.preClear

\* C28: a history resolution that scans the filesystem runs only in the
\* worker thread: a lookup made on the interactive thread
\* (_update_file_status -> get_file_history -> load_file_history) returns
\* without scanning, from the cache or for a path that is not valid.
C28_NoScanOnInteractiveThread ==
  [][GuiUpdateFileStatus =>
       ~LoadFileHistory(fs, cache, Head(gui).path, sync_pairs).scanned]_vars

(***************************************************************************)
(* SpecSelect: FileHistoryModel.set_current_file called with any path,     *)
(* while the worker runs and the file is deleted and written again.        *)
(* lastCall is the latest set_current_file call: its path, current_file    *)
(* and history_data before it.                                             *)
(***************************************************************************)
SelectPaths == {NoFile, PathStr(PosixSep, FileA), StrOf(FolderA), StrOf(FileZ)}

\* a set_current_file that compares with current_file before it tests the path
SelectBranchEqualFirst(f, file_path, cf) ==
  IF file_path = cf THEN "same"
  ELSE IF ~IsValid(f, file_path) \/ ~IsFile(f, file_path) THEN "clear"
  ELSE "new"
\* set_current_file, lines 215-224: which of its three ends a call takes
SelectBranch(f, file_path, cf) ==
  IF ~IsValid(f, file_path) \/ ~IsFile(f, file_path) THEN "clear"
  ELSE IF file_path = cf THEN "same"
  ELSE "new"

SelectCall(file_path, cf, data) ==
  [path |-> file_path, current_file |-> cf, history_data |-> data, none |-> FALSE]

\* FileHistoryModel.set_current_file(file_path)
SetCurrentFile(file_path) ==
  /\ requests < MaxRequests
  /\ LET branch == SelectBranch(fs, file_path, current_file)
     IN  IF branch = "clear"
         THEN /\ current_file' = NoFile
              /\ Refresh(NoFile)
         ELSE IF branch = "same"
         THEN UNCHANGED <<current_file, history_data, requests, loading,
                          unannounced, worker, workers>>
         ELSE /\ current_file' = file_path
              /\ Refresh(file_path)
  /\ lastCall' = SelectCall(file_path, current_file, history_data)
  /\ UNCHANGED <<fs, cache, sync_pairs, queue, gui, current_file_path, file_list,
                 installed, lastReturn, prevCall, input, handoffVars, config_files,
                 sync_config_paths, file_remarks, file_bytes>>

NextSelect ==
  \/ \E p \in SelectPaths : SetCurrentFile(p)
  \/ \E w \in 1..MaxRequests : WorkerBegin(w)
  \/ \E w \in 1..MaxRequests : WorkerScanPair(w)
  \/ \E w \in 1..MaxRequests : WorkerStore(w)
  \/ \E w \in 1..MaxRequests : WorkerEmit(w)
  \/ HandleWorkerFinished
  \/ \E t \in 0..1 : FsTouch(FileA, t)

SpecSelect == Init /\ [][NextSelect]_vars

\* what a set_current_file call that does nothing leaves alone: no signal
\* (unannounced, loading), no refresh (requests), no worker started or
\* terminated, history_data and current_file as they were
SelectNoOp ==
  UNCHANGED <<current_file, history_data, requests, loading, unannounced,
              worker, workers>>
\* what a set_current_file call that clears leaves behind
SelectCleared == current_file' = NoFile /\ history_data' = <<>>
NotAFile(file_path) == ~IsValid(fs, file_path) \/ ~IsFile(fs, file_path)

\* C38, as stated: set_current_file(p) with p equal to current_file changes
\* nothing and emits nothing; with p invalid or not a file it sets
\* current_file to "" and history_data to [].
C38_SameFileNoOpElseCleared ==
  [][\A p \in SelectPaths :
       SetCurrentFile(p) =>
         /\ p = current_file => SelectNoOp
         /\ NotAFile(p) => SelectCleared]_vars

\* C38, amended: set_current_file(p) with p an existing file equal to
\* current_file changes nothing and emits nothing; with p invalid or not a
\* file, equal to current_file or not, it sets current_file to "" and
\* history_data to [].
C38_SameValidFileNoOpElseCleared ==
  [][\A p \in SelectPaths :
       SetCurrentFile(p) =>
         /\ (p = current_file /\ ~NotAFile(p)) => SelectNoOp
         /\ NotAFile(p) => SelectCleared]_vars

\* the current file had a history on display and was deleted; the call with
\* its path cleared current_file and history_data
C38_Witness ==
  /\ ~lastCall.none
  /\ lastCall.path = lastCall.current_file
  /\ lastCall.path # NoFile
  /\ lastCall.history_data # <<>>
  /\ current_file = NoFile
  /\ history_data = <<>>
  /\ unannounced

(***************************************************************************)
(* SpecConfig: the registry of SyncConfigModel.  The user adds one or two  *)
(* configuration paths in a call, removes a row, and the files behind the  *)
(* paths are rewritten or deleted between the calls.                       *)
(***************************************************************************)
\* the Pair elements a document is written with
GoodPair == XmlPair(El(StrOf(FolderA)), El(StrOf(FolderC)))
PairEntries ==
  {XmlPair(Absent, El(StrOf(FolderB))), XmlPair(El(NoFile), El(StrOf(FolderB))),
   XmlPair(El(StrOf(FolderA)), El(NoFile)), XmlPair(El(StrOf(FolderA)), El(StrOf(FolderB)))}
\* what the file c1 is rewritten to, and the file c2
Documents(c) ==
  IF c = "c1"
  THEN {Unreadable, Job1Xml, XmlDoc(Absent, <<>>)}
         \cup {XmlDoc(El(StrOf(FolderV)), <<e, GoodPair>>) : e \in PairEntries}
         \cup {XmlDoc(El(StrOf(FolderV)), <<GoodPair, e>>) : e \in PairEntries}
  ELSE {Unreadable, Job2Xml}
Rewritten == {"c1", "c2"}
\* the argument lists of add_configs
PathLists ==
  {<<p>> : p \in ConfigPaths}
    \cup {<<"c1", "c2">>, <<"c2", "c1">>,
          <<"notes.txt", "c3.FFS_BATCH">>, <<"c3.FFS_BATCH", "notes.txt">>}

\* an add_configs call: its argument, the pair list before and after it, the
\* list it returns, whether an exception left it, and whether the call before
\* it was the same call (repeat)
ConfigCall(paths, before, result, repeat) ==
  [paths |-> paths, before |-> before, after |-> result.sync_pairs,
   success |-> result.success, raised |-> result.raised, repeat |-> repeat,
   none |-> FALSE]

InitConfig ==
  /\ InitModel
  /\ sync_config_paths = {}
  /\ fs = FsStart
  /\ cache = EmptyCache
  /\ sync_pairs = <<>>
  /\ input = NoInput

\* SyncConfigModel.add_configs(config_paths)
ConfigAdd(paths) ==
  /\ LET r == AddConfigsLoop(sync_pairs, paths, config_files)
     IN  /\ sync_pairs' = r.sync_pairs
         /\ lastCall' = ConfigCall(paths, sync_pairs, r,
                                   ~lastCall.none /\ lastCall.paths = paths)
         /\ sync_config_paths' = IF r.raised THEN sync_config_paths
                                 ELSE UpdatedPaths(sync_config_paths, paths)
  /\ UNCHANGED <<fs, cache, input, handoffVars, config_files, file_remarks, file_bytes, prevCall>>
  /\ UNCHANGED guiModelVars

\* SyncConfigModel.remove_config(index) on a valid index
ConfigRemove(i) ==
  /\ i \in 1..Len(sync_pairs)
  /\ sync_pairs' = RemovedPair(sync_pairs, i)
  /\ lastCall' = NoCall
  /\ UNCHANGED <<fs, cache, input, handoffVars, config_files, sync_config_paths, file_remarks, file_bytes, prevCall>>
  /\ UNCHANGED guiModelVars

\* the file behind a path is saved with another document, damaged or deleted
ConfigRewrite(c, doc) ==
  /\ config_files[c] # doc
  /\ config_files' = [config_files EXCEPT ![c] = doc]
  /\ lastCall' = NoCall
  /\ UNCHANGED <<fs, cache, input, handoffVars, sync_pairs, sync_config_paths, file_remarks, file_bytes, prevCall>>
  /\ UNCHANGED guiModelVars

NextConfig ==
  \/ \E paths \in PathLists : ConfigAdd(paths)
  \/ \E i \in 1..2 : ConfigRemove(i)
  \/ \E c \in Rewritten : \E doc \in Documents(c) : ConfigRewrite(c, doc)

SpecConfig == InitConfig /\ [][NextConfig]_vars

\* the pairs of a list that carry a configuration path
RegisteredFor(list, config_path) ==
  SelectSeq(list, LAMBDA sp : sp.sync_config_path = config_path)
\* the pairs a call appended
AppendedBy(call) == SubSeq(call.after, Len(call.before) + 1, Len(call.after))
\* the path names a file add_configs can parse
Parses(config_path) ==
  CreateParser(config_path) /\ config_files[config_path].readable

\* C17: add_configs with the same path(s) twice in a row leaves sync_pairs as
\* the first call left it, and every call keeps the pairs that were registered
\* before it, in place and unchanged, whatever the file holds by now.
C17_AddConfigsIdempotent ==
  ~lastCall.none =>
    /\ lastCall.repeat => lastCall.after = lastCall.before
    /\ Len(lastCall.after) >= Len(lastCall.before)
    /\ SubSeq(lastCall.after, 1, Len(lastCall.before)) = lastCall.before

\* a valid file was added again after it was rewritten with other folders,
\* twice in a row: the registered pair is not the one the file holds now
C17_Witness ==
  /\ ~lastCall.none
  /\ lastCall.repeat
  /\ lastCall.paths = <<"c1">>
  /\ Parses("c1")
  /\ lastCall.success = <<TRUE>>
  /\ Len(RegisteredFor(lastCall.after, "c1")) = 1
  /\ Len(PairsOfElements("c1", config_files["c1"])) > 0
  /\ RegisteredFor(lastCall.after, "c1")[1] # PairsOfElements("c1", config_files["c1"])[1]


\* the places of a call's argument list
Places(call) == 1..Len(call.paths)
\* no exception left the call and it answers for every path
Answered(call) == ~call.raised /\ Len(call.success) = Len(call.paths)

\* C18: a configuration file that is missing or malformed makes parse_config
\* return None without raising; in add_configs its place gets success = false,
\* no pair is added for it, and every other file of the list that parses is
\* reported true and has its pair in the registry, before or after it in the list.
C18_ParseFailureIsolated ==
  ~lastCall.none =>
    \A i \in Places(lastCall) :
      LET p == lastCall.paths[i]
      IN  (CreateParser(p) /\ ~config_files[p].readable) =>
            /\ ParseConfig(p, config_files[p]).none
            /\ ~ParseConfig(p, config_files[p]).raised
            /\ Answered(lastCall)
            /\ lastCall.success[i] = FALSE
            /\ RegisteredFor(AppendedBy(lastCall), p) = <<>>
            /\ \A j \in Places(lastCall) \ {i} :
                 LET q == lastCall.paths[j]
                 IN  Parses(q) =>
                       /\ lastCall.success[j] = TRUE
                       /\ PairsOfElements(q, config_files[q]) # <<>> =>
                            RegisteredFor(lastCall.after, q) # <<>>

\* the damaged file c2 is first in the list and the pair of c1 is appended
C18_Witness ==
  /\ ~lastCall.none
  /\ lastCall.paths = <<"c2", "c1">>
  /\ ~config_files["c2"].readable
  /\ lastCall.success = <<FALSE, TRUE>>
  /\ RegisteredFor(AppendedBy(lastCall), "c1") # <<>>
  /\ RegisteredFor(lastCall.after, "c2") = <<>>

\* C19: a path whose suffix, lower-cased, is not .ffs_batch gets no parser and
\* no exception; add_configs reports success = false at its place and the
\* registry holds no pair for it.
C19_UnknownSuffixRejected ==
  ~lastCall.none =>
    \A i \in Places(lastCall) :
      LET p == lastCall.paths[i]
      IN  Lower(PathSuffix(p)) # ".ffs_batch" =>
            /\ ~CreateParser(p)
            /\ Answered(lastCall)
            /\ lastCall.success[i] = FALSE
            /\ RegisteredFor(lastCall.after, p) = <<>>

\* notes.txt holds a well-formed document with a folder pair and is added
\* together with a file that is registered by the same call
C19_Witness ==
  /\ ~lastCall.none
  /\ lastCall.paths = <<"notes.txt", "c3.FFS_BATCH">>
  /\ config_files["notes.txt"].readable
  /\ PairsOfElements("notes.txt", config_files["notes.txt"]) # <<>>
  /\ lastCall.success = <<FALSE, TRUE>>
  /\ RegisteredFor(AppendedBy(lastCall), "c3.FFS_BATCH") # <<>>

\* the Pair elements of a document that have a Left text and a Right text
EntriesWithText(doc) ==
  SelectSeq(doc.Pairs, LAMBDA e : /\ e.Left.present /\ e.Left.text # NoFile
                                  /\ e.Right.present /\ e.Right.text # NoFile)

\* C20: parse_config yields one pair for every Pair element that has a Left
\* text and a Right text, in document order, and none for the others: no pair
\* of the result has an empty left_path or right_path.
C20_PairsWithoutTextSkipped ==
  ~lastCall.none =>
    \A i \in Places(lastCall) :
      LET p == lastCall.paths[i]
          doc == config_files[p]
          out == ParseConfig(p, doc).sync_pairs
          kept == EntriesWithText(doc)
      IN  Parses(p) =>
            /\ \A k \in 1..Len(out) :
                 out[k].left_path # NoFile /\ out[k].right_path # NoFile
            /\ Len(out) = Len(kept)
            /\ \A k \in 1..Len(out) :
                 /\ out[k].left_path = kept[k].Left.text
                 /\ out[k].right_path = kept[k].Right.text

\* C30: no two pairs of the registry have the same sync_config_path, after
\* any add_configs and remove_config; a file that parses to several pairs
\* and has no pair registered yet gets its first parsed pair registered and
\* no other.
C30_OnePairPerConfigPath ==
  /\ \A i, j \in 1..Len(sync_pairs) :
       SyncPairEq(sync_pairs[i], sync_pairs[j]) => i = j
  /\ (~lastCall.none /\ Answered(lastCall)) =>
       \A k \in Places(lastCall) :
         LET c == lastCall.paths[k]
             parsed == PairsOfElements(c, config_files[c])
         IN  (/\ lastCall.success[k]
              /\ RegisteredFor(lastCall.before, c) = <<>>
              /\ Len(parsed) > 0) =>
               RegisteredFor(sync_pairs, c) = <<parsed[1]>>

\* a file with two different folder pairs was added, among other files, to
\* a registry that had no pair of it
C30_Witness ==
  /\ ~lastCall.none
  /\ Answered(lastCall)
  /\ Len(lastCall.paths) = 2
  /\ lastCall.success = <<TRUE, TRUE>>
  /\ Len(lastCall.before) > 0
  /\ \E k \in Places(lastCall) :
       LET c == lastCall.paths[k]
           parsed == PairsOfElements(c, config_files[c])
       IN  /\ RegisteredFor(lastCall.before, c) = <<>>
           /\ Len(parsed) = 2
           /\ parsed[1].right_path # parsed[2].right_path
           /\ RegisteredFor(sync_pairs, c) = <<parsed[1]>>

\* the configuration paths of the registered pairs
RegisteredPaths == {sync_pairs[i].sync_config_path : i \in 1..Len(sync_pairs)}

\* C36: the set of loaded configuration paths is the set of the
\* sync_config_path values of the registered pairs, after every add_configs
\* and remove_config.
C36_LoadedPathsAreRegistered == sync_config_paths = RegisteredPaths

(***************************************************************************)
(* SpecParse: parse_config on one document with filters.                   *)
(***************************************************************************)
\* the Filter elements a document is written with
Filters ==
  {NoFilter, XmlFilter(<<"*.doc">>, <<>>), XmlFilter(<<"*.x", "">>, <<"tmp">>),
   XmlFilter(<<>>, <<"bak">>)}
FilteredPairs ==
  {[XmlPair(El(StrOf(FolderA)), El(StrOf(FolderB))) EXCEPT !.Filter = x] : x \in Filters}
    \cup {[XmlPair(Absent, El(StrOf(FolderB))) EXCEPT !.Filter = XmlFilter(<<"*.doc">>, <<>>)]}
FilteredDocs ==
  {[XmlDoc(Absent, ps) EXCEPT !.Filter = g] :
     g \in Filters,
     ps \in {<<e>> : e \in FilteredPairs} \cup {<<d, e>> : d, e \in FilteredPairs}}

\* a parse_config call and what it returned
ParseCall(doc, parsed) == [doc |-> doc, sync_pairs |-> parsed.sync_pairs, none |-> parsed.none]

InitParse ==
  /\ InitModel
  /\ sync_config_paths = {}
  /\ fs = FsStart
  /\ cache = EmptyCache
  /\ sync_pairs = <<>>
  /\ input \in [doc : FilteredDocs]

\* FFSConfigParser().parse_config(config_path)
Parse ==
  /\ lastCall = NoCall
  /\ lastCall' = ParseCall(input.doc, ParseConfig("c1", input.doc))
  /\ UNCHANGED <<fs, cache, sync_pairs, input, handoffVars, config_files, sync_config_paths, file_remarks, file_bytes, prevCall>>
  /\ UNCHANGED guiModelVars

NextParse == Parse

SpecParse == InitParse /\ [][NextParse]_vars

\* the Pair elements of a document that have a Left and a Right element
PairsKept(doc) == SelectSeq(doc.Pairs, LAMBDA e : e.Left.present /\ e.Right.present)

\* C21: every pair parse_config returns has as include_patterns the Include
\* items of the document's own Filter followed by the Include items of the
\* Filter of its Pair element, and as exclude_patterns likewise; the Filter of
\* a Pair element shows in no other pair, also without a document Filter.
C21_PatternsGlobalThenOwn ==
  ~lastCall.none =>
    LET doc == lastCall.doc
        kept == PairsKept(doc)
    IN  /\ Len(lastCall.sync_pairs) = Len(kept)
        /\ \A k \in 1..Len(kept) :
             /\ lastCall.sync_pairs[k].include_patterns
                  = ItemTexts(doc.Filter.Include) \o ItemTexts(kept[k].Filter.Include)
             /\ lastCall.sync_pairs[k].exclude_patterns
                  = ItemTexts(doc.Filter.Exclude) \o ItemTexts(kept[k].Filter.Exclude)

(***************************************************************************)
(* SpecClassify: FFSConfigParser.get_file_history on one queried path, for  *)
(* every pair list, path and filesystem in the bounds.  The roots A and AB, *)
(* V and VX are folders next to each other of which one name starts with    *)
(* the other.                                                              *)
(***************************************************************************)
FolderAB == <<Dir("AB")>>
FolderVX == <<Dir("VX")>>
ClassifyFiles == {r \o <<DocTxt>> : r \in {FolderA, FolderAB, FolderB, FolderV, FolderVX}}

\* str(Path(s).resolve()): the characters of the path, a separator before
\* each component
RECURSIVE TextOf(_)
TextOf(p) ==
  IF Len(p) = 0 THEN <<>>
  ELSE LET n == p[Len(p)]
       IN  TextOf(Parent(p)) \o <<NativeSep>> \o Chars(n.stem)
             \o (IF n.ext = "" THEN <<>> ELSE <<n.ext>>)
\* s.startswith(t)
StartsWith(s, t) == Len(t) <= Len(s) /\ SubSeq(s, 1, Len(t)) = t
\* Path.exists
PathExists(f, p) == p \in DOMAIN f /\ f[p] > 0
\* _create_history_item(file_path, version); version is "versioning" for
\* the label of a file in the versioning folder, "right" and "left" for the
\* labels of the counterpart on the right and on the left side
HistoryItem(file_path, version) == [file_path |-> file_path, version |-> version]
Classified(items, raised) == [items |-> items, raised |-> raised]

\* get_file_history, lines 124 and 134, 150: file_path.startswith(base)
UnderRoot(text, base_text, p, base) == StartsWith(text, base_text)

\* the counterpart of p under the other root, lines 141-147 and 157-163
Counterpart(f, p, base, other_base, version) ==
  IF RelativeToRaises(p, base) THEN <<>>
  ELSE LET other_path == other_base \o RelativeTo(p, base)
       IN  IF PathExists(f, other_path)
           THEN <<HistoryItem(StrOf(other_path), version)>>
           ELSE <<>>

\* get_file_history, the body of the loop over self.sync_pairs
ClassifyPair(f, sync_pair, p) ==
  LET left == PathOf(sync_pair.left_path)
      right == PathOf(sync_pair.right_path)
      versioning == PathOf(sync_pair.versioning_folder)
  IN  IF /\ Len(sync_pair.versioning_folder.parts) > 0
         /\ UnderRoot(TextOf(p), TextOf(versioning), p, versioning)
      THEN IF PathExists(f, p)
           THEN Classified(<<HistoryItem(StrOf(p), "versioning")>>, FALSE)
           ELSE Classified(<<>>, TRUE)
      ELSE IF UnderRoot(TextOf(p), TextOf(left), p, left)
      THEN Classified(Counterpart(f, p, left, right, "right"), FALSE)
      ELSE IF UnderRoot(TextOf(p), TextOf(right), p, right)
      THEN Classified(Counterpart(f, p, right, left, "left"), FALSE)
      ELSE Classified(<<>>, FALSE)

\* FFSConfigParser.get_file_history(file_path) with self.sync_pairs = pairs
RECURSIVE GetFileHistory(_, _, _)
GetFileHistory(f, pairs, file_path) ==
  IF Len(pairs) = 0 THEN Classified(<<>>, FALSE)
  ELSE LET before == GetFileHistory(f, SubSeq(pairs, 1, Len(pairs) - 1), file_path)
       IN  IF before.raised THEN before
           ELSE LET this == ClassifyPair(f, pairs[Len(pairs)], PathOf(file_path))
                IN  Classified(before.items \o this.items, this.raised)

ClassifyPairs ==
  {SyncPair("job", StrOf(l), StrOf(r), v, "c1") :
     l \in {FolderA, FolderAB}, r \in {FolderAB, FolderB},
     v \in {NoFile, StrOf(FolderV)}}
ClassifyPairLists ==
  {<<a>> : a \in ClassifyPairs}
    \cup {<<a, SyncPair("job2", StrOf(FolderA), StrOf(FolderAB), NoFile, "c2")>> :
            a \in {c \in ClassifyPairs : c.right_path = StrOf(FolderB)}}
ClassifyFs == [ClassifyFiles -> 0..1]
ClassifyCall(file_path, pairs, out) ==
  [file_path |-> file_path, pairs |-> pairs, items |-> out.items,
   raised |-> out.raised, none |-> FALSE]

InitClassify ==
  /\ InitModel
  /\ sync_config_paths = {}
  /\ fs \in ClassifyFs
  /\ cache = EmptyCache
  /\ sync_pairs \in ClassifyPairLists
  /\ input \in [file_path : {StrOf(p) : p \in ClassifyFiles}]

Classify ==
  /\ lastCall = NoCall
  /\ lastCall' = ClassifyCall(input.file_path, sync_pairs,
                              GetFileHistory(fs, sync_pairs, input.file_path))
  /\ UNCHANGED <<fs, cache, sync_pairs, input, handoffVars, config_files, sync_config_paths, file_remarks, file_bytes, prevCall>>
  /\ UNCHANGED guiModelVars

NextClassify == Classify

SpecClassify == InitClassify /\ [][NextClassify]_vars

\* the pairs of a call under whose versioning folder, left root and right
\* root the path lies
VersioningPairsOf(call) ==
  {i \in 1..Len(call.pairs) :
     /\ Len(call.pairs[i].versioning_folder.parts) > 0
     /\ IsPrefix(PathOf(call.pairs[i].versioning_folder), PathOf(call.file_path))}
LeftPairsOf(call) ==
  {i \in 1..Len(call.pairs) :
     IsPrefix(PathOf(call.pairs[i].left_path), PathOf(call.file_path))}
RightPairsOf(call) ==
  {i \in 1..Len(call.pairs) :
     IsPrefix(PathOf(call.pairs[i].right_path), PathOf(call.file_path))}
\* the path under the other root of a pair
Across(call, base, other_base) ==
  StrOf(PathOf(other_base) \o RelativeTo(PathOf(call.file_path), PathOf(base)))

\* C29: get_file_history treats the queried path as under a versioning, left
\* or right root only when the root is the path or an ancestor of it, and
\* for a path under the right root and not under the left root of a pair it
\* reports the counterpart under the left root when that file exists.
C29_ClassifiedByAncestry ==
  ~lastCall.none =>
    /\ lastCall.raised => VersioningPairsOf(lastCall) # {}
    /\ \A k \in 1..Len(lastCall.items) :
         LET item == lastCall.items[k]
         IN  /\ item.version = "versioning" => VersioningPairsOf(lastCall) # {}
             /\ item.version = "right" =>
                  \E i \in LeftPairsOf(lastCall) :
                    item.file_path = Across(lastCall, lastCall.pairs[i].left_path,
                                            lastCall.pairs[i].right_path)
             /\ item.version = "left" =>
                  \E i \in RightPairsOf(lastCall) :
                    item.file_path = Across(lastCall, lastCall.pairs[i].right_path,
                                            lastCall.pairs[i].left_path)
    /\ ~lastCall.raised =>
         \A i \in RightPairsOf(lastCall) \ (LeftPairsOf(lastCall) \cup VersioningPairsOf(lastCall)) :
           LET other == Across(lastCall, lastCall.pairs[i].right_path,
                               lastCall.pairs[i].left_path)
           IN  PathExists(fs, PathOf(other)) =>
                 \E k \in 1..Len(lastCall.items) :
                   lastCall.items[k] = HistoryItem(other, "left")

(***************************************************************************)
(* SpecRemarks and SpecStore: calls to the remarks store, one after the     *)
(* other, while the files are edited and moved.  lastCall is the latest    *)
(* call or file operation.  SpecRemarks looks at two operations in a row:  *)
(* prevCall is what the operation before the latest was, and the storage   *)
(* works.  SpecStore looks at one call: lastCall has the table before it,  *)
(* and storage operations can fail.                                        *)
(***************************************************************************)
InRow == [observe |-> "row"]
OneCall == [observe |-> "call"]
\* the paths remarks are asked for, A\doc.txt in two spellings
RemarkPaths == {StrOf(FileA), PathStr(PosixSep, FileA), StrOf(FileB)}
RemarkTexts == {"", " ", " x ", "y"}
RemarkFiles == {FileA, FileB}
RemarkBytes == 1..2

\* a call to the store: the table before it, how it ended, and for
\* set_remarks the row it looked up (kind)
RemarksCall(op, path, text, before, out, kind) ==
  [op |-> op, path |-> path, text |-> text,
   before |-> IF input = OneCall THEN before ELSE <<>>,
   result |-> out.result, failed |-> out.failed, raised |-> out.raised,
   kind |-> kind, none |-> FALSE]
\* what is kept of the operation before the latest: a set_remarks that did
\* what it was asked, a move of a file right after one
Before(call) ==
  IF /\ input = InRow
     /\ ~call.none
     /\ \/ call.op = "set" /\ (Strip(call.text) = "" \/ call.result = TRUE)
        \/ call.op = "move" /\ call.result = TRUE
  THEN [op |-> call.op, file |-> PathOf(call.path), text |-> Strip(call.text),
        none |-> FALSE]
  ELSE NoCall
\* a file operation: path is where the bytes are now, text the remark a
\* set_remarks call set for the file just before it was moved, result
\* whether there was such a call and the new path has no row of its own
FileOp(op, path, text, result) ==
  [op |-> op, path |-> path, text |-> text, before |-> <<>>, result |-> result,
   failed |-> FALSE, raised |-> FALSE, kind |-> "", none |-> FALSE]
\* the latest operation was a set_remarks of a text on file f that returned True
JustSet(call, f) ==
  /\ ~call.none
  /\ call.op = "set"
  /\ PathOf(call.path) = f
  /\ Strip(call.text) # ""
  /\ call.result = TRUE

InitRemarks ==
  /\ InitModel
  /\ sync_config_paths = {}
  /\ fs = FsStart
  /\ cache = EmptyCache
  /\ sync_pairs = <<>>
  /\ input = InRow

InitStore ==
  /\ InitModel
  /\ sync_config_paths = {}
  /\ fs = FsStart
  /\ cache = EmptyCache
  /\ sync_pairs = <<>>
  /\ input = OneCall

\* FileRemarksManager().get_remarks(file_path)
RemarksGet(p, fails) ==
  /\ fails = "none" \/ input = OneCall
  /\ file_remarks' = GetRemarks(file_remarks, file_bytes, p, fails).table
  /\ lastCall' = RemarksCall("get", p, "", file_remarks,
                             GetRemarks(file_remarks, file_bytes, p, fails), "")
  /\ prevCall' = Before(lastCall)
  /\ UNCHANGED <<fs, cache, sync_pairs, input, handoffVars, config_files, sync_config_paths, file_bytes>>
  /\ UNCHANGED guiModelVars

\* FileRemarksManager().set_remarks(file_path, remarks)
RemarksSet(p, t, fails) ==
  /\ fails = "none" \/ input = OneCall
  /\ file_remarks' = SetRemarks(file_remarks, file_bytes, p, t, fails).table
  /\ lastCall' = RemarksCall("set", p, t, file_remarks,
                             SetRemarks(file_remarks, file_bytes, p, t, fails),
                             SetTarget(FirstByPath(file_remarks, NormalizePath(p)),
                                       FirstByHash(file_remarks,
                                                   CalculateFileHash(file_bytes, p))).kind)
  /\ prevCall' = Before(lastCall)
  /\ UNCHANGED <<fs, cache, sync_pairs, input, handoffVars, config_files, sync_config_paths, file_bytes>>
  /\ UNCHANGED guiModelVars

\* FileRemarksManager().delete_remarks(file_path)
RemarksDelete(p, fails) ==
  /\ fails = "none" \/ input = OneCall
  /\ file_remarks' = DeleteRemarks(file_remarks, file_bytes, p, fails).table
  /\ lastCall' = RemarksCall("delete", p, "", file_remarks,
                             DeleteRemarks(file_remarks, file_bytes, p, fails), "")
  /\ prevCall' = Before(lastCall)
  /\ UNCHANGED <<fs, cache, sync_pairs, input, handoffVars, config_files, sync_config_paths, file_bytes>>
  /\ UNCHANGED guiModelVars

\* a file is written with other bytes, or created
FileEdit(f, b) ==
  /\ file_bytes[f] # b
  /\ file_bytes' = [file_bytes EXCEPT ![f] = b]
  /\ lastCall' = FileOp("edit", StrOf(f), "", FALSE)
  /\ prevCall' = Before(lastCall)
  /\ UNCHANGED <<fs, cache, sync_pairs, input, handoffVars, config_files, sync_config_paths, file_remarks>>
  /\ UNCHANGED guiModelVars

\* a file is moved to a path where no file is, with its bytes
FileMove(f, g) ==
  /\ file_bytes[f] # 0
  /\ file_bytes[g] = 0
  /\ file_bytes' = [file_bytes EXCEPT ![g] = file_bytes[f], ![f] = 0]
  /\ lastCall' = FileOp("move", StrOf(g),
                        IF JustSet(lastCall, f) THEN Strip(lastCall.text) ELSE "",
                        /\ JustSet(lastCall, f)
                        /\ FirstByPath(file_remarks, NormalizePath(StrOf(g))) = 0)
  /\ prevCall' = Before(lastCall)
  /\ UNCHANGED <<fs, cache, sync_pairs, input, handoffVars, config_files, sync_config_paths, file_remarks>>
  /\ UNCHANGED guiModelVars

NextRemarks ==
  \/ \E p \in RemarkPaths, fails \in {"none", "exec"} : RemarksGet(p, fails)
  \/ \E p \in RemarkPaths, t \in RemarkTexts, fails \in {"none", "exec", "commit"} :
       RemarksSet(p, t, fails)
  \/ \E p \in RemarkPaths, fails \in {"none", "exec", "commit"} : RemarksDelete(p, fails)
  \/ \E f \in RemarkFiles, b \in RemarkBytes : FileEdit(f, b)
  \/ \E f, g \in RemarkFiles : FileMove(f, g)

SpecRemarks == InitRemarks /\ [][NextRemarks]_vars
SpecStore == InitStore /\ [][NextRemarks]_vars

\* the latest operation is a call of the store that came right after the
\* operation first on the same file
RightAfter(first, call) ==
  /\ ~lastCall.none
  /\ ~prevCall.none
  /\ prevCall.op = first
  /\ lastCall.op = call
  /\ prevCall.file = PathOf(lastCall.path)

\* C22: get_remarks(p) right after a set_remarks(p, t) that returned True for
\* a text t that is not empty after strip() returns t stripped.
C22_SetThenGet ==
  (RightAfter("set", "get") /\ prevCall.text # "") =>
    lastCall.result = prevCall.text

\* the text had blanks around it, the path is asked for in another spelling
\* and the table has another row with another text
C22_Witness ==
  /\ RightAfter("set", "get")
  /\ prevCall.text = "x"
  /\ lastCall.path = PathStr(PosixSep, FileA)
  /\ lastCall.result = "x"
  /\ \E k \in 1..Len(file_remarks) : file_remarks[k].remarks = "y"

\* the rows of the table that are stored for a file
RowsOf(table, f) ==
  {k \in 1..Len(table) : table[k].file_path = PathStr(PosixSep, f)}

\* C23: get_remarks(p) right after set_remarks(p, t) with a text t that is
\* empty after strip() returns "", and the table has no row for p; no row of
\* the table ever has an empty remarks text.
C23_ClearThenGet ==
  /\ (RightAfter("set", "get") /\ prevCall.text = "") =>
       /\ lastCall.result = ""
       /\ RowsOf(file_remarks, PathOf(lastCall.path)) = {}
  /\ \A k \in 1..Len(file_remarks) : file_remarks[k].remarks # ""

\* C24: after set_remarks(p1, x) returned True and the file was moved from p1
\* to a path p2 that has no row of its own, get_remarks(p2) returns x.
C24_MovedFileKeepsRemark ==
  RightAfter("move", "get") => lastCall.result = prevCall.text

\* the rows of a table that carry the hash of the file at a path
RowsWithHashOf(table, path) ==
  {k \in 1..Len(table) : /\ CalculateFileHash(file_bytes, path) # NoHash
                         /\ table[k].file_hash = CalculateFileHash(file_bytes, path)}
\* the latest operation is a call of the store whose storage operations worked
Worked(call) == ~lastCall.none /\ lastCall.op = call /\ ~lastCall.failed

\* C25: delete_remarks(p) returns True exactly when it removed a row, and
\* returns False, leaving the table as it was, when no row matches p by path
\* or by content hash.
C25_DeleteReportsRemoval ==
  Worked("delete") =>
    /\ (lastCall.result = TRUE) <=> (file_remarks # lastCall.before)
    /\ (/\ RowsOf(lastCall.before, PathOf(lastCall.path)) = {}
        /\ RowsWithHashOf(lastCall.before, lastCall.path) = {}) =>
         /\ lastCall.result = FALSE
         /\ file_remarks = lastCall.before

\* C26: when a storage operation of a call fails, get_remarks returns "",
\* set_remarks and delete_remarks return False, no exception leaves the call
\* and the table is as it was before the call.
C26_StorageErrorsCaught ==
  (~lastCall.none /\ lastCall.failed) =>
    /\ ~lastCall.raised
    /\ lastCall.result = (IF lastCall.op = "get" THEN "" ELSE FALSE)
    /\ file_remarks = lastCall.before

\* the commit of a set_remarks that would have repointed a row failed, and
\* the table has rows
C26_Witness ==
  /\ ~lastCall.none
  /\ lastCall.failed
  /\ lastCall.op = "set"
  /\ lastCall.kind = "hash"
  /\ Strip(lastCall.text) # ""
  /\ lastCall.result = FALSE
  /\ lastCall.before # <<>>

\* C27: set_remarks(p, t) with t not empty after strip() writes the row whose
\* path is p if there is one; else the row with the hash of the file at p,
\* whose path becomes p; else a new row.  Only the new row makes the table
\* longer, by one.
C27_SetPicksPathHashInsert ==
  (Worked("set") /\ Strip(lastCall.text) # "") =>
    LET before == lastCall.before
        p == PathStr(PosixSep, PathOf(lastCall.path))
        t == Strip(lastCall.text)
        byPath == RowsOf(before, PathOf(lastCall.path))
        byHash == RowsWithHashOf(before, lastCall.path)
    IN  /\ lastCall.result = TRUE
        /\ IF byPath # {}
           THEN \E k \in byPath : file_remarks = [before EXCEPT ![k].remarks = t]
           ELSE IF byHash # {}
           THEN \E k \in byHash :
                  file_remarks = [before EXCEPT ![k].remarks = t, ![k].file_path = p]
           ELSE file_remarks
                  = Append(before, FileRemarks(p, CalculateFileHash(file_bytes, lastCall.path), t))
        /\ Len(file_remarks) <= Len(before) + 1
        /\ (Len(file_remarks) = Len(before) + 1) <=> (byPath = {} /\ byHash = {})

\* the file has a row of its own and the bytes of a file with another row:
\* the row found by path is written and the other is left alone
C27_Witness ==
  /\ Worked("set")
  /\ Strip(lastCall.text) # ""
  /\ RowsOf(lastCall.before, PathOf(lastCall.path)) # {}
  /\ RowsWithHashOf(lastCall.before, lastCall.path) # {}
  /\ RowsOf(lastCall.before, PathOf(lastCall.path))
       # RowsWithHashOf(lastCall.before, lastCall.path)
  /\ file_remarks # lastCall.before


\* C32: after a set_remarks(p, t) that returned True for a text that is not
\* empty after strip(), the row stored for p carries the hash of the bytes
\* the file at p has at that call.
C32_StoredHashIsCurrent ==
  (Worked("set") /\ Strip(lastCall.text) # "" /\ lastCall.result = TRUE) =>
    /\ RowsOf(file_remarks, PathOf(lastCall.path)) # {}
    /\ \A k \in RowsOf(file_remarks, PathOf(lastCall.path)) :
         file_remarks[k].file_hash = CalculateFileHash(file_bytes, lastCall.path)

\* the paths of the model that name another file than the path of a call
OtherPaths(call) == {q \in RemarkPaths : PathOf(q) # PathOf(call.path)}
\* get_remarks(q) on a table, with the files as they are
Remark(table, q) == GetRemarks(table, file_bytes, q, "none").result

\* C33: set_remarks(p, t) and delete_remarks(p) leave get_remarks(q) as it
\* was for every path q of another file, also when the files at p and q have
\* the same bytes.
C33_OtherRemarksUntouched ==
  (Worked("set") \/ Worked("delete")) =>
    \A q \in OtherPaths(lastCall) :
      Remark(file_remarks, q) = Remark(lastCall.before, q)

\* C34: no two rows of the table are stored for the same file, whatever
\* calls were made one after the other.
C34_OneRowPerPath ==
  \A i, j \in 1..Len(file_remarks) :
    PathOf(file_remarks[i].file_path) = PathOf(file_remarks[j].file_path) => i = j

\* the table has a row for each file, and the latest call set the remark of
\* a file that has a row, under the other spelling of its path
C34_Witness ==
  /\ Worked("set")
  /\ lastCall.path = StrOf(FileA)
  /\ lastCall.result = TRUE
  /\ Len(file_remarks) = 2
  /\ Len(lastCall.before) = 2
  /\ file_remarks # lastCall.before

\* C35: get_remarks leaves the table as it was, also when it answers from a
\* row found by the hash of the file and when a storage operation fails.
C35_GetLeavesStoreAlone ==
  (~lastCall.none /\ lastCall.op = "get") => file_remarks = lastCall.before

\* the path asked for has no row, and the answer is the remark of the row
\* that carries the hash of the file
C35_Witness ==
  /\ Worked("get")
  /\ RowsOf(lastCall.before, PathOf(lastCall.path)) = {}
  /\ RowsWithHashOf(lastCall.before, lastCall.path) # {}
  /\ lastCall.result # ""
  /\ \A k \in 1..Len(file_remarks) :
       file_remarks[k].file_path # NormalizePath(lastCall.path)
(***************************************************************************)
(* SpecHandoff: secondary launches hand their command line to the running  *)
(* primary.  Every secondary is a process of its own: its steps are the    *)
(* file operations of initSingleton, and they interleave with each other   *)
(* and with the file operations of the primary's on_new_instance.  The     *)
(* primary has written its window handle to the shared memory, and         *)
(* PostMessage succeeds.                                                   *)
(***************************************************************************)
\* the variables the hand-off leaves alone
appVars == <<fs, cache, sync_pairs, input, config_files, sync_config_paths,
             file_remarks, file_bytes, lastCall, prevCall>>

\* the primary is running and no secondary was launched yet
InitHandoff ==
  /\ InitModel
  /\ sync_config_paths = {}
  /\ fs = FsStart
  /\ cache = EmptyCache
  /\ sync_pairs = <<>>
  /\ input = NoInput

\* initSingleton of a secondary launch up to the test of len(args.files):
\* the shared memory exists, hwnd is read from it
SecondaryStart(s) ==
  /\ launches[s].pc = "none"
  /\ launches' = [launches EXCEPT ![s] =
                    IF Len(Argv(s)) > 0 THEN At("exists", <<>>) ELSE At("post", <<>>)]
  /\ UNCHANGED <<args_file, posted, primary, handed>>
  /\ UNCHANGED appVars
  /\ UNCHANGED guiModelVars

\* if ARGS_TEMP_PKL_FILE.exists(): ... else: new_args = sys.argv[1:]
SecondaryExists(s) ==
  /\ launches[s].pc = "exists"
  /\ launches' = [launches EXCEPT ![s] =
                    IF args_file.exists THEN At("read", <<>>) ELSE At("write", Argv(s))]
  /\ UNCHANGED <<args_file, posted, primary, handed>>
  /\ UNCHANGED appVars
  /\ UNCHANGED guiModelVars

\* old_args = pickle.loads(ARGS_TEMP_PKL_FILE.read_bytes());
\* new_args = old_args + sys.argv[1:].  read_bytes raises FileNotFoundError
\* when the file is gone by now, and nothing in initSingleton catches it
SecondaryRead(s) ==
  /\ launches[s].pc = "read"
  /\ launches' = [launches EXCEPT ![s] =
                    IF args_file.exists THEN At("write", args_file.args \o Argv(s))
                    ELSE At("raised", <<>>)]
  /\ UNCHANGED <<args_file, posted, primary, handed>>
  /\ UNCHANGED appVars
  /\ UNCHANGED guiModelVars

\* ARGS_TEMP_PKL_FILE.write_bytes(pickle.dumps(new_args))
SecondaryWrite(s) ==
  /\ launches[s].pc = "write"
  /\ args_file' = ArgsFile(launches[s].new_args)
  /\ launches' = [launches EXCEPT ![s] = At("post", launches[s].new_args)]
  /\ UNCHANGED <<posted, primary, handed>>
  /\ UNCHANGED appVars
  /\ UNCHANGED guiModelVars

\* win32gui.PostMessage(hwnd, NEW_INSTANCE_MESSAGE, 0, 0); initSingleton returns
SecondaryPost(s) ==
  /\ launches[s].pc = "post"
  /\ posted' = posted + 1
  /\ launches' = [launches EXCEPT ![s] = At("done", launches[s].new_args)]
  /\ UNCHANGED <<args_file, primary, handed>>
  /\ UNCHANGED appVars
  /\ UNCHANGED guiModelVars

\* how often a path is in a list
Count(args, f) == Cardinality({i \in 1..Len(args) : args[i] = f})
\* MainWindow._handle_file_paths(list(filter(None, args)))
HandleFilePaths(h, args) == [f \in DOMAIN h |-> h[f] + Count(args, f)]

\* windowsEvent takes a NEW_INSTANCE_MESSAGE, the timer fires and
\* on_new_instance tests ARGS_TEMP_PKL_FILE.exists(); without the file it
\* only raises the window
OnNewInstanceExists ==
  /\ primary.pc = "idle"
  /\ posted > 0
  /\ posted' = posted - 1
  /\ primary' = IF args_file.exists THEN PrimaryAt("read", <<>>) ELSE PrimaryIdle
  /\ UNCHANGED <<args_file, launches, handed>>
  /\ UNCHANGED appVars
  /\ UNCHANGED guiModelVars

\* args = pickle.loads(ARGS_TEMP_PKL_FILE.read_bytes()); only the primary
\* removes the file, so it is still there
OnNewInstanceRead ==
  /\ primary.pc = "read"
  /\ primary' = PrimaryAt("unlink", args_file.args)
  /\ UNCHANGED <<args_file, launches, posted, handed>>
  /\ UNCHANGED appVars
  /\ UNCHANGED guiModelVars

\* ARGS_TEMP_PKL_FILE.unlink(); self._handle_file_paths(...); show_forground()
OnNewInstanceUnlink ==
  /\ primary.pc = "unlink"
  /\ args_file' = NoArgsFile
  /\ handed' = HandleFilePaths(handed, primary.args)
  /\ primary' = PrimaryIdle
  /\ UNCHANGED <<launches, posted>>
  /\ UNCHANGED appVars
  /\ UNCHANGED guiModelVars

NextHandoff ==
  \/ \E s \in Launches : SecondaryStart(s)
  \/ \E s \in Launches : SecondaryExists(s)
  \/ \E s \in Launches : SecondaryRead(s)
  \/ \E s \in Launches : SecondaryWrite(s)
  \/ \E s \in Launches : SecondaryPost(s)
  \/ OnNewInstanceExists
  \/ OnNewInstanceRead
  \/ OnNewInstanceUnlink

SpecHandoff == InitHandoff /\ [][NextHandoff]_vars

\* the launches that were started
Launched == {s \in Launches : launches[s].pc # "none"}
\* the paths on the command lines of the launches that were started
PassedPaths == UNION {{Argv(s)[i] : i \in 1..Len(Argv(s))} : s \in Launched}
\* every launch that was started has left initSingleton, the primary has run
\* on_new_instance for every message and is outside it
HandoffAtRest ==
  /\ \A s \in Launched : launches[s].pc \in {"done", "raised"}
  /\ posted = 0
  /\ primary.pc = "idle"

\* C39: no path of the command line of a secondary launch is passed to
\* _handle_file_paths more than once, and when every started launch has
\* returned and the primary has run on_new_instance for every message posted,
\* every such path was passed to _handle_file_paths once.
C39_HandedOverExactlyOnce ==
  /\ \A f \in HandoffPaths : handed[f] <= 1
  /\ HandoffAtRest => \A f \in PassedPaths : handed[f] = 1

====
